---- MODULE Spec2Model ----
(***************************************************************************)
(* Branching conversation engine of llm-mux ("Hatch"): the turn store, the *)
(* branch resolver, the fan-out / compare / stream request handlers of the *)
(* server and the multi-stream hook of the client.                         *)
(*                                                                         *)
(* Text (turn content, chunks, error messages) is a sequence of            *)
(* characters.  Turn ids are the naturals 1, 2, ... handed out in          *)
(* insertion order (a fresh UUID per insert); 0 stands for null.           *)
(* Time is in milliseconds.                                                *)
(***************************************************************************)
EXTENDS Integers, Sequences, FiniteSets, TLC

VARIABLES
    turns,      \* the turns table / MemStorage.turns of the one chat, in insertion order
    nextId,     \* the next fresh turn id
    now,        \* the wall clock, new Date().getTime()
    apiKeys,    \* the providers that have an API key stored
    chats,      \* the chats table: the title of every stored chat, by chat id
    fan,        \* the POST /turns and POST /compare requests in flight
    sess,       \* the POST /stream sessions (one provider each)
    rt,         \* the request of the refactored routes (routes.new.ts)
    hook,       \* the state of the client hook useMultiStreaming
    view,       \* what GET /chats/:chatId/branches/:branchId returned, call by call
    currentChatId, \* the id the next created chat gets
    reply,      \* the outcome of the last ChatService call
    writers,    \* the PostgresStorage.createTurn calls in flight, step by step
    context     \* what formatTurnsHistory was given and what it handed to the provider

vars == <<turns, nextId, now, apiKeys, chats, fan, sess, rt, hook, view, currentChatId, reply,
          writers, context>>

\* What the handlers of one route leave alone: the other routes' requests.
notFan == <<sess, rt, hook, view, currentChatId, reply, writers, context>>
notStream == <<fan, rt, hook, view, currentChatId, reply, writers, context>>
requests == <<fan, sess, rt, hook, view, currentChatId, reply, writers, context>>

-----------------------------------------------------------------------------
(* Bounds and constants *)

ChatId == 1
Null == 0
NoModel == "null"

Providers == {"claude", "openai"}
BranchIds == {"root"} \cup Providers
StreamBranches == {"root", "claude"}
StreamContents == {<<"h", "i">>, <<"y", "o">>}

MaxTurns == 3
MaxTicks == 2
TickMs == 2500
TitleLength == 30

Contents == {<<"h", "i">>}
Texts == {<<"4">>}
ErrorMessages == {<<"q", "u", "o", "t", "a">>}

InitialTitle == <<"N", "e", "w">>
ErrorPrefix == <<"E", "r", "r", "o", "r", ":", " ">>
FailedToGenerate == <<"F", "a", "i", "l", "e", "d">>

-----------------------------------------------------------------------------
(* Turn store *)

Ids(store) == {store[i].id : i \in 1..Len(store)}

TurnById(store, id) == CHOOSE t \in {store[i] : i \in 1..Len(store)} : t.id = id

\* String.prototype.slice(0, n)
Slice(text, n) == SubSeq(text, 1, IF Len(text) < n THEN Len(text) ELSE n)

StartsWith(text, prefix) ==
    /\ Len(text) >= Len(prefix)
    /\ SubSeq(text, 1, Len(prefix)) = prefix

\* content.slice(0, 30) + (content.length > 30 ? '...' : '')
DeriveTitle(content) ==
    Slice(content, TitleLength) \o
        (IF Len(content) > TitleLength THEN <<".", ".", ".">> ELSE <<>>)

\* The row createTurn stores for insertTurn: a fresh id and the given timestamp.
NewTurn(insertTurn, id, ts) ==
    [id           |-> id,
     chatId       |-> insertTurn.chatId,
     parentTurnId |-> insertTurn.parentTurnId,
     branchId     |-> insertTurn.branchId,
     role         |-> insertTurn.role,
     model        |-> insertTurn.model,
     content      |-> insertTurn.content,
     timestamp    |-> ts]

UserTurnsOf(store, chatId) ==
    SelectSeq(store, LAMBDA t : t.chatId = chatId /\ t.role = "user")

\* A createTurn that writes the new row over the last stored one.
createTurnOverwriting(insertTurn, ts) ==
    LET turn == NewTurn(insertTurn, nextId, ts)
        stored == IF turns = <<>> THEN <<turn>>
                  ELSE Append(SubSeq(turns, 1, Len(turns) - 1), turn)
    IN  /\ turns' = stored
        /\ nextId' = nextId + 1
        /\ chats' = chats

\* createTurn: insert the row, then derive the chat title from the first user turn.
createTurn(insertTurn, ts) ==
    LET turn == NewTurn(insertTurn, nextId, ts)
        stored == Append(turns, turn)
    IN  /\ turns' = stored
        /\ nextId' = nextId + 1
        /\ chats' =
              IF /\ turn.role = "user" /\ Len(UserTurnsOf(stored, turn.chatId)) = 1
                 /\ turn.chatId \in DOMAIN chats
              THEN [chats EXCEPT ![turn.chatId].title = DeriveTitle(turn.content)]
              ELSE chats

\* .orderBy(turns.timestamp): ascending, rows of equal timestamp in insertion order
RECURSIVE InsertByTimestamp(_, _)
InsertByTimestamp(sorted, t) ==
    IF sorted = <<>> THEN <<t>>
    ELSE IF Head(sorted).timestamp > t.timestamp THEN <<t>> \o sorted
    ELSE <<Head(sorted)>> \o InsertByTimestamp(Tail(sorted), t)

RECURSIVE OrderByTimestamp(_)
OrderByTimestamp(seq) ==
    IF seq = <<>> THEN <<>>
    ELSE InsertByTimestamp(OrderByTimestamp(SubSeq(seq, 1, Len(seq) - 1)), seq[Len(seq)])

getTurns(store, chatId) ==
    OrderByTimestamp(SelectSeq(store, LAMBDA t : t.chatId = chatId))

-----------------------------------------------------------------------------
(* Branch resolver *)

\* The replies to userTurn that the root view shows: every reply (a resolver
\* that does not pick one).
RootResponsesAll(chatTurns, userTurn) ==
    SelectSeq(chatTurns,
              LAMBDA t : t.role = "assistant" /\ t.parentTurnId = userTurn.id)

\* The first reply, whatever its branch (a resolver without the preference).
RootResponsesFirst(chatTurns, userTurn) ==
    LET responses == SelectSeq(chatTurns,
                         LAMBDA t : t.role = "assistant" /\ t.parentTurnId = userTurn.id)
    IN  IF responses = <<>> THEN <<>> ELSE <<responses[1]>>

\* responses.find(r => r.branchId === r.model) || responses[0], when there is one
RootResponses(chatTurns, userTurn) ==
    LET responses == SelectSeq(chatTurns,
                         LAMBDA t : t.role = "assistant" /\ t.parentTurnId = userTurn.id)
        canonical == SelectSeq(responses, LAMBDA r : r.branchId = r.model)
    IN  IF responses = <<>> THEN <<>>
        ELSE IF canonical # <<>> THEN <<canonical[1]>>
        ELSE <<responses[1]>>

RECURSIVE DefaultResponses(_, _)
DefaultResponses(chatTurns, userTurns) ==
    IF userTurns = <<>> THEN <<>>
    ELSE RootResponses(chatTurns, Head(userTurns))
             \o DefaultResponses(chatTurns, Tail(userTurns))

\* A non-root filter that forgets the model test on assistant turns.
InBranchAnyModel(turn, branchId) ==
    \/ turn.branchId = branchId
    \/ (turn.branchId = "root" /\ turn.role = "user")
    \/ turn.role = "assistant"

InBranch(turn, branchId) ==
    \/ turn.branchId = branchId
    \/ (turn.branchId = "root" /\ turn.role = "user")
    \/ (turn.role = "assistant" /\ turn.model = branchId)

\* The body of getTurnsByBranch once the rows of the chat are loaded.
ResolveBranch(chatTurns, branchId) ==
    IF branchId = "root"
    THEN LET userTurns == SelectSeq(chatTurns,
                              LAMBDA t : t.role = "user" /\ t.branchId = "root")
         IN  userTurns \o DefaultResponses(chatTurns, userTurns)
    ELSE SelectSeq(chatTurns, LAMBDA t : InBranch(t, branchId))

\* PostgresStorage.getTurnsByBranch (and MockStorage.getTurnsByBranch), the rows
\* of equal timestamp in insertion order
getTurnsByBranch(store, chatId, branchId) ==
    ResolveBranch(getTurns(store, chatId), branchId)

\* .orderBy(turns.timestamp) as the database runs it: ascending by timestamp,
\* rows that compare equal in whatever order the executor produces them.
RECURSIVE QueryOrders(_)
QueryOrders(rows) ==
    IF rows = {} THEN {<<>>}
    ELSE UNION {{<<t>> \o rest : rest \in QueryOrders(rows \ {t})} :
                   t \in {r \in rows : \A o \in rows : r.timestamp <= o.timestamp}}

\* Every result one call of PostgresStorage.getTurnsByBranch can return.
getTurnsByBranchResults(store, chatId, branchId) ==
    {ResolveBranch(chatTurns, branchId) :
        chatTurns \in QueryOrders({store[i] : i \in {j \in 1..Len(store) :
                                                       store[j].chatId = chatId}})}

\* Array.from(new Map(combined.map(t => [t.id, t])).values()): first position of each id
RECURSIVE Unique(_)
Unique(seq) ==
    IF seq = <<>> THEN <<>>
    ELSE LET front == Unique(SubSeq(seq, 1, Len(seq) - 1))
             last == seq[Len(seq)]
         IN  IF last.id \in Ids(front) THEN front ELSE Append(front, last)

\* PostgresStorage.getBranchTurns, the JavaScript-side merge
getBranchTurns(store, chatId, branchId) ==
    LET allTurnsForChat == SelectSeq(store, LAMBDA t : t.chatId = chatId)
        rootTurns == SelectSeq(allTurnsForChat, LAMBDA t : t.branchId = "root")
        rootTurnIds == Ids(rootTurns)
        branchTurns == SelectSeq(allTurnsForChat,
                           LAMBDA t : \/ t.branchId = branchId
                                      \/ /\ t.role = "assistant"
                                         /\ t.parentTurnId # Null
                                         /\ t.parentTurnId \in rootTurnIds)
    IN  OrderByTimestamp(Unique(rootTurns \o branchTurns))

\* MemStorage.getBranchTurns: the root branch and the requested branch, by time
MemStorage_getBranchTurns(store, chatId, branchId) ==
    OrderByTimestamp(SelectSeq(store,
        LAMBDA t : t.chatId = chatId /\ (t.branchId = "root" \/ t.branchId = branchId)))

Range(seq) == {seq[i] : i \in 1..Len(seq)}

-----------------------------------------------------------------------------
(* POST /chats/:chatId/turns and POST /chats/:chatId/compare: one user turn, *)
(* one concurrent generate task per selected provider                      *)

FanReqs == {1}

TaskStates == {"none", "pending", "generating", "ok", "error", "nokey"}

IdleFan ==
    [kind |-> "idle", pc |-> "idle", content |-> <<>>, branchId |-> "root",
     userTurn |-> Null,
     task |-> [p \in Providers |-> "none"],
     gen |-> [p \in Providers |-> <<>>],
     turnId |-> [p \in Providers |-> Null],
     status |-> 0]

\* const modelBranchId = branchId === 'root' ? provider : branchId  (/turns)
\* const modelBranchId = provider                                   (/compare)
\* The branch of a reply as POST /turns names it, whatever the request is.
modelBranchIdOfTurns(kind, branchId, provider) ==
    IF branchId = "root" THEN provider ELSE branchId

modelBranchId(kind, branchId, provider) ==
    IF kind = "compare" THEN provider
    ELSE IF branchId = "root" THEN provider ELSE branchId

AssistantTurn(parent, branchId, provider, content) ==
    [chatId |-> ChatId, parentTurnId |-> parent, branchId |-> branchId,
     role |-> "assistant", model |-> provider, content |-> content]

UserTurn(parent, branchId, content) ==
    [chatId |-> ChatId, parentTurnId |-> parent, branchId |-> branchId,
     role |-> "user", model |-> NoModel, content |-> content]

\* A request slot takes a new request once its previous one has been answered.
SlotFree(r) ==
    /\ fan[r].pc \in {"idle", "done"}
    /\ \A q \in FanReqs : q < r => fan[q].pc # "idle"

\* The turns the running requests may still store.
Outstanding ==
    Cardinality({<<r, p>> \in FanReqs \X Providers :
                    fan[r].pc = "running" /\ fan[r].task[p] \in {"pending", "generating"}})

\* The request body parses; the user turn is stored before any provider runs.
TurnsStart(r, content, branchId, parentTurnId, selectedModels) ==
    /\ SlotFree(r)
    /\ Len(turns) + Outstanding + 1 + Cardinality(selectedModels) <= MaxTurns
    /\ createTurn(UserTurn(parentTurnId, branchId, content), now)
    /\ fan' = [fan EXCEPT ![r] =
                  [IdleFan EXCEPT !.kind = "turns", !.pc = "running",
                                  !.content = content, !.branchId = branchId,
                                  !.userTurn = nextId,
                                  !.task = [p \in Providers |->
                                       IF p \in selectedModels THEN "pending" ELSE "none"]]]
    /\ UNCHANGED notFan
    /\ UNCHANGED <<now, apiKeys>>

\* turns.find(turn => turn.id === userTurnId && turn.role === 'user')
CompareStart(r, userTurnId, selectedModels) ==
    /\ SlotFree(r)
    /\ Len(turns) + Outstanding + Cardinality(selectedModels) <= MaxTurns
    /\ LET found == SelectSeq(getTurns(turns, ChatId),
                        LAMBDA t : t.id = userTurnId /\ t.role = "user")
       IN  IF found = <<>>
           THEN fan' = [fan EXCEPT ![r] =
                           [IdleFan EXCEPT !.kind = "compare", !.pc = "done",
                                           !.status = 404]]
           ELSE fan' = [fan EXCEPT ![r] =
                           [IdleFan EXCEPT !.kind = "compare", !.pc = "running",
                                           !.content = found[1].content,
                                           !.branchId = found[1].branchId,
                                           !.userTurn = found[1].id,
                                           !.task = [p \in Providers |->
                                                IF p \in selectedModels THEN "pending"
                                                ELSE "none"]]]
    /\ UNCHANGED notFan
    /\ UNCHANGED <<turns, nextId, now, apiKeys, chats>>

\* A missing key ends the provider's task with a result and no turn.
NoKeyOutcome(r, p) ==
    fan' = [fan EXCEPT ![r].task[p] = "nokey"]

\* const apiKey = await storage.getApiKey(provider); if (!apiKey) return {...}
TaskKeyCheck(r, p) ==
    /\ fan[r].pc = "running"
    /\ fan[r].task[p] = "pending"
    /\ IF p \in apiKeys
       THEN fan' = [fan EXCEPT ![r].task[p] = "generating"]
       ELSE NoKeyOutcome(r, p)
    /\ UNCHANGED notFan
    /\ UNCHANGED <<turns, nextId, now, apiKeys, chats>>

\* generateLLMResponseFromTurns resolved: the reply is stored as the provider's turn.
TaskGenerated(r, p, text) ==
    /\ fan[r].pc = "running"
    /\ fan[r].task[p] = "generating"
    /\ createTurn(AssistantTurn(fan[r].userTurn,
                                modelBranchId(fan[r].kind, fan[r].branchId, p),
                                p, text), now)
    /\ fan' = [fan EXCEPT ![r].task[p] = "ok", ![r].gen[p] = text,
                          ![r].turnId[p] = nextId]
    /\ UNCHANGED notFan
    /\ UNCHANGED <<now, apiKeys>>

\* An error turn that stores the bare message.
ErrorContentBare(message) == message

\* content: `Error: ${errorMessage}` with errorMessage = error.message || "Failed ..."
ErrorContent(message) ==
    ErrorPrefix \o (IF message = <<>> THEN FailedToGenerate ELSE message)

\* generateLLMResponseFromTurns threw: the catch block stores an error turn.
TaskFailed(r, p, message) ==
    /\ fan[r].pc = "running"
    /\ fan[r].task[p] = "generating"
    /\ createTurn(AssistantTurn(fan[r].userTurn,
                                modelBranchId(fan[r].kind, fan[r].branchId, p),
                                p, ErrorContent(message)), now)
    /\ fan' = [fan EXCEPT ![r].task[p] = "error", ![r].gen[p] = message,
                          ![r].turnId[p] = nextId]
    /\ UNCHANGED notFan
    /\ UNCHANGED <<now, apiKeys>>

TaskDone(r, p) == fan[r].task[p] \in {"none", "ok", "error", "nokey"}

\* await Promise.all(llmPromises); res.status(201).json(...)
FanRespond(r) ==
    /\ fan[r].pc = "running"
    /\ \A p \in Providers : TaskDone(r, p)
    /\ fan' = [fan EXCEPT ![r].pc = "done", ![r].status = 201]
    /\ UNCHANGED notFan
    /\ UNCHANGED <<turns, nextId, now, apiKeys, chats>>

\* The message of a rejected insert.
StorageError == <<"d", "b">>

\* storage.createTurn rejects inside the try block; the catch block calls
\* storage.createTurn again for the error turn.  If that insert succeeds the
\* error turn is stored; if it rejects too, the provider's promise rejects,
\* Promise.all rejects and the outer catch answers 400 while the other
\* providers' tasks go on.
TaskPersistFailed(r, p, stillFailing) ==
    /\ fan[r].pc = "running"
    /\ fan[r].kind = "turns"
    /\ fan[r].task[p] = "generating"
    /\ IF stillFailing
       THEN /\ fan' = [fan EXCEPT ![r].task[p] = "rejected", ![r].status = 400]
            /\ UNCHANGED <<turns, nextId, chats>>
       ELSE /\ createTurn(AssistantTurn(fan[r].userTurn,
                                        modelBranchId(fan[r].kind, fan[r].branchId, p),
                                        p, ErrorContent(StorageError)), now)
            /\ fan' = [fan EXCEPT ![r].task[p] = "error", ![r].gen[p] = StorageError,
                                  ![r].turnId[p] = nextId]
    /\ UNCHANGED notFan
    /\ UNCHANGED <<now, apiKeys>>

\* Every task of a request that was answered 400 has settled.
FanSettled(r) ==
    /\ fan[r].pc = "running"
    /\ fan[r].status = 400
    /\ \A p \in Providers : TaskDone(r, p) \/ fan[r].task[p] = "rejected"
    /\ fan' = [fan EXCEPT ![r].pc = "done"]
    /\ UNCHANGED notFan
    /\ UNCHANGED <<turns, nextId, now, apiKeys, chats>>

-----------------------------------------------------------------------------
(* POST /chats/:chatId/stream: one provider's streaming session             *)

Sessions == {1, 2}

DedupWindowMs == 5000
MaxChunks == 2

\* The text of the provider's k-th chunk.
ChunkStream == <<"a", "b", "c", "d">>
Chunk(k) == <<ChunkStream[((k - 1) % Len(ChunkStream)) + 1]>>

ResponseInterrupted ==
    <<"R", "e", "s", "p", "o", "n", "s", "e", " ",
      "i", "n", "t", "e", "r", "r", "u", "p", "t", "e", "d">>

IdleSession ==
    [pc |-> "idle", content |-> <<>>, branchId |-> "root", provider |-> "claude",
     lookupTime |-> 0, lookupNext |-> 0, createTs |-> 0,
     created |-> FALSE, userTurn |-> Null,
     completeResponse |-> <<>>, isCompleted |-> FALSE,
     closed |-> FALSE, closeAt |-> 0, closeTurn |-> Null, finalTurn |-> Null,
     events |-> <<>>, outcome |-> "none", status |-> 0]

\* A duplicate filter without the time window.
IsRecentDuplicateAnyAge(turn, content, time) ==
    /\ turn.role = "user"
    /\ turn.content = content

\* turn.role === 'user' && turn.content === content &&
\* (new Date().getTime() - new Date(turn.timestamp).getTime() < 5000)
IsRecentDuplicate(turn, content, time) ==
    /\ turn.role = "user"
    /\ turn.content = content
    /\ time - turn.timestamp < DedupWindowMs

\* .sort((a, b) => b.timestamp - a.timestamp): descending, equal timestamps keep
\* their order
RECURSIVE InsertByTimestampDesc(_, _)
InsertByTimestampDesc(sorted, t) ==
    IF sorted = <<>> THEN <<t>>
    ELSE IF Head(sorted).timestamp < t.timestamp THEN <<t>> \o sorted
    ELSE <<Head(sorted)>> \o InsertByTimestampDesc(Tail(sorted), t)

RECURSIVE SortNewestFirst(_)
SortNewestFirst(seq) ==
    IF seq = <<>> THEN <<>>
    ELSE InsertByTimestampDesc(SortNewestFirst(SubSeq(seq, 1, Len(seq) - 1)),
                               seq[Len(seq)])

recentUserTurns(store, branchId, content, time) ==
    SortNewestFirst(SelectSeq(getTurnsByBranch(store, ChatId, branchId),
                              LAMBDA t : IsRecentDuplicate(t, content, time)))

\* The request parses and the chat exists.  existingTurns = await
\* storage.getTurnsByBranch(...): a recent duplicate is reused, otherwise
\* createTurn is called (its timestamp is taken here, its row is inserted by
\* StreamCreate).
StreamStart(s, content, branchId, provider) ==
    /\ sess[s].pc = "idle"
    /\ \A q \in Sessions : q < s => sess[q].pc # "idle"
    /\ LET recent == recentUserTurns(turns, branchId, content, now)
           request == [IdleSession EXCEPT !.content = content, !.branchId = branchId,
                                          !.provider = provider,
                                          !.lookupTime = now, !.lookupNext = nextId]
       IN  IF recent # <<>>
           THEN sess' = [sess EXCEPT ![s] =
                            [request EXCEPT !.pc = "key", !.userTurn = recent[1].id]]
           ELSE sess' = [sess EXCEPT ![s] =
                            [request EXCEPT !.pc = "create", !.createTs = now]]
    /\ UNCHANGED <<turns, nextId, now, apiKeys, chats>>
    /\ UNCHANGED notStream

\* The insert of storage.createTurn({... role: "user" ...}) reaches the table.
StreamCreate(s) ==
    /\ sess[s].pc = "create"
    /\ createTurn(UserTurn(Null, sess[s].branchId, sess[s].content), sess[s].createTs)
    /\ sess' = [sess EXCEPT ![s].pc = "key", ![s].userTurn = nextId,
                            ![s].created = TRUE]
    /\ UNCHANGED <<now, apiKeys>>
    /\ UNCHANGED notStream

\* const apiKey = await storage.getApiKey(provider); without one the request is
\* answered 400; with one the close handler is registered and streaming begins.
StreamKeyCheck(s) ==
    /\ sess[s].pc = "key"
    /\ IF sess[s].provider \in apiKeys
       THEN sess' = [sess EXCEPT ![s].pc = "streaming", ![s].status = 200]
       ELSE sess' = [sess EXCEPT ![s].pc = "done", ![s].status = 400]
    /\ UNCHANGED <<turns, nextId, now, apiKeys, chats>>
    /\ UNCHANGED notStream

\* The patched res.write: if (data.chunk) captureStream(data.chunk)
Capture(event) ==
    IF event.event = "chunk" /\ event.data # <<>> THEN event.data ELSE <<>>

ChunkCount(events) == Len(SelectSeq(events, LAMBDA e : e.event = "chunk"))

\* A relay that puts the newest chunk in front of the ones already written.
ProviderChunkNewestFirst(s) ==
    /\ sess[s].pc = "streaming"
    /\ ChunkCount(sess[s].events) < MaxChunks
    /\ LET e == [event |-> "chunk", data |-> Chunk(ChunkCount(sess[s].events) + 1)]
       IN  sess' = [sess EXCEPT ![s].events = <<e>> \o @,
                                ![s].completeResponse = @ \o Capture(e)]
    /\ UNCHANGED <<turns, nextId, now, apiKeys, chats>>
    /\ UNCHANGED notStream

\* onChunk: res.write(`data: ${JSON.stringify({ chunk })}\n\n`)
ProviderChunk(s) ==
    /\ sess[s].pc = "streaming"
    /\ ChunkCount(sess[s].events) < MaxChunks
    /\ LET e == [event |-> "chunk", data |-> Chunk(ChunkCount(sess[s].events) + 1)]
       IN  sess' = [sess EXCEPT ![s].events = Append(@, e),
                                ![s].completeResponse = @ \o Capture(e)]
    /\ UNCHANGED <<turns, nextId, now, apiKeys, chats>>
    /\ UNCHANGED notStream

\* What the close handler stores without the sentinel.
InterruptedContentRaw(completeResponse) == completeResponse

\* content: completeResponse || "Response interrupted"
InterruptedContent(completeResponse) ==
    IF completeResponse = <<>> THEN ResponseInterrupted ELSE completeResponse

\* req.on('close'): the caller went away while isCompleted is still false
ClientClose(s) ==
    /\ sess[s].pc = "streaming"
    /\ ~sess[s].closed
    /\ ~sess[s].isCompleted
    /\ createTurn(AssistantTurn(sess[s].userTurn,
                                modelBranchId("stream", sess[s].branchId, sess[s].provider),
                                sess[s].provider,
                                InterruptedContent(sess[s].completeResponse)), now)
    /\ sess' = [sess EXCEPT ![s].closed = TRUE, ![s].closeAt = Len(sess[s].events),
                            ![s].closeTurn = nextId]
    /\ UNCHANGED <<now, apiKeys>>
    /\ UNCHANGED notStream

\* The adapter's last write, then the handler's completion path:
\* isCompleted = true; if (completeResponse) await storage.createTurn(...)
StreamFinish(s, e, outcome) ==
    /\ sess[s].pc = "streaming"
    /\ LET complete == sess[s].completeResponse \o Capture(e)
       IN  /\ IF complete # <<>>
              THEN /\ createTurn(AssistantTurn(sess[s].userTurn,
                                     modelBranchId("stream", sess[s].branchId,
                                                   sess[s].provider),
                                     sess[s].provider, complete), now)
                   /\ sess' = [sess EXCEPT ![s].pc = "done", ![s].isCompleted = TRUE,
                                           ![s].events = Append(@, e),
                                           ![s].completeResponse = complete,
                                           ![s].outcome = outcome,
                                           ![s].finalTurn = nextId]
              ELSE /\ UNCHANGED <<turns, nextId, chats>>
                   /\ sess' = [sess EXCEPT ![s].pc = "done", ![s].isCompleted = TRUE,
                                           ![s].events = Append(@, e),
                                           ![s].outcome = outcome]
    /\ UNCHANGED <<now, apiKeys>>
    /\ UNCHANGED notStream

\* onComplete: res.write({ done: true }); res.end()
ProviderComplete(s) ==
    StreamFinish(s, [event |-> "done", data |-> <<>>], "complete")

\* onError: res.write({ error: error.message }); res.end()
ProviderError(s, message) ==
    StreamFinish(s, [event |-> "error", data |-> message], "error")

-----------------------------------------------------------------------------
(* The refactored routes of routes.new.ts: POST /turns and POST /stream *)

\* The model names a request body may carry; "llama" fails LLMProviderSchema.
RequestedModels == Providers \cup {"llama"}

ModelLists ==
    {<<>>} \cup {<<m>> : m \in RequestedModels}
           \cup {<<m, n>> : <<m, n>> \in {x \in RequestedModels \X RequestedModels : x[1] # x[2]}}

IdleRoute ==
    [kind |-> "idle", pc |-> "idle", models |-> <<>>, idx |-> 0, userTurn |-> Null,
     keysAtStart |-> {},
     task |-> [p \in Providers |-> "none"],
     turnId |-> [p \in Providers |-> Null],
     chunks |-> 0, events |-> <<>>, status |-> 0, closed |-> FALSE]

RouteEvent(event, model, data) == [event |-> event, model |-> model, data |-> data]

InvalidModel == <<"I", "n", "v", "a", "l", "i", "d">>
ApiKeyNotSet == <<"n", "o", "t", " ", "s", "e", "t">>

\* The handler has answered and none of its generation promises is pending.
RouteFree ==
    /\ rt.pc \in {"idle", "done"}
    /\ \A p \in Providers : rt.task[p] # "generating"

GeneratingTasks(models) ==
    [p \in Providers |-> IF p \in Range(models) THEN "generating" ELSE "none"]

\* createTurn(validatedData) runs before the models are looked at.
NewTurnsStart(content, branchId, parentTurnId, models) ==
    /\ RouteFree
    /\ Len(turns) + 1 + Len(models) <= MaxTurns
    /\ createTurn(UserTurn(parentTurnId, branchId, content), now)
    /\ rt' = [IdleRoute EXCEPT !.kind = "turns",
                               !.pc = IF models = <<>> THEN "generating" ELSE "validating",
                               !.models = models, !.idx = 1, !.userTurn = nextId,
                               !.keysAtStart = apiKeys]
    /\ UNCHANGED <<now, apiKeys, fan, sess, hook, view, currentChatId, reply, writers, context>>

\* for (const model of models): an invalid model or a missing key throws
\* ValidationError (400) for the whole request; after the loop Promise.all starts
\* one generation per model.
NewTurnsValidate ==
    /\ rt.kind = "turns" /\ rt.pc = "validating"
    /\ LET model == rt.models[rt.idx]
       IN  IF model \notin Providers \/ model \notin apiKeys
           THEN rt' = [rt EXCEPT !.pc = "done", !.status = 400]
           ELSE IF rt.idx = Len(rt.models)
           THEN rt' = [rt EXCEPT !.pc = "generating", !.idx = rt.idx + 1,
                                 !.task = GeneratingTasks(rt.models)]
           ELSE rt' = [rt EXCEPT !.idx = rt.idx + 1]
    /\ UNCHANGED <<turns, nextId, now, apiKeys, chats, fan, sess, hook, view, currentChatId, reply, writers, context>>

\* generateResponse resolved: createTurn({ branchId: model, role: 'assistant', ... }).
\* A promise still pending when another one rejected stores its turn all the same.
NewTurnsGenerated(p, text) ==
    /\ rt.kind = "turns" /\ rt.task[p] = "generating"
    /\ createTurn(AssistantTurn(rt.userTurn, p, p, text), now)
    /\ rt' = [rt EXCEPT !.task[p] = "done", !.turnId[p] = nextId]
    /\ UNCHANGED <<now, apiKeys, fan, sess, hook, view, currentChatId, reply, writers, context>>

\* generateResponse threw CustomError(500): Promise.all rejects, the error
\* middleware answers, no turn is stored for this model.
NewTurnsFailed(p) ==
    /\ rt.kind = "turns" /\ rt.task[p] = "generating"
    /\ rt' = [rt EXCEPT !.task[p] = "failed", !.pc = "done",
                        !.status = IF rt.status = 0 THEN 500 ELSE rt.status]
    /\ UNCHANGED <<turns, nextId, now, apiKeys, chats, fan, sess, hook, view, currentChatId, reply, writers, context>>

\* res.status(201).json({ userTurn: turn, assistantTurns })
NewTurnsRespond ==
    /\ rt.kind = "turns" /\ rt.pc = "generating"
    /\ \A p \in Providers : rt.task[p] \in {"none", "done"}
    /\ rt' = [rt EXCEPT !.pc = "done", !.status = 201]
    /\ UNCHANGED <<turns, nextId, now, apiKeys, chats, fan, sess, hook, view, currentChatId, reply, writers, context>>

\* The user turn is stored on branch 'root' and its id is sent to the client.
NewStreamStart(content, parentTurnId, models) ==
    /\ RouteFree
    /\ models # <<>>
    /\ Len(turns) + 1 + Len(models) <= MaxTurns
    /\ createTurn(UserTurn(parentTurnId, "root", content), now)
    /\ rt' = [IdleRoute EXCEPT !.kind = "stream", !.pc = "loop", !.models = models,
                               !.idx = 1, !.userTurn = nextId, !.status = 200,
                               !.keysAtStart = apiKeys,
                               !.events = <<RouteEvent("userTurn", NoModel, <<>>)>>]
    /\ UNCHANGED <<now, apiKeys, fan, sess, hook, view, currentChatId, reply, writers, context>>

\* One pass of for (const model of models) up to the provider call: an invalid
\* model or a missing key writes an error event and continues; otherwise
\* turnStart is written and the assistant turn is created with content ''.
NewStreamModel ==
    /\ rt.kind = "stream" /\ rt.pc = "loop" /\ rt.idx <= Len(rt.models)
    /\ LET model == rt.models[rt.idx]
       IN  IF model \notin Providers
           THEN /\ rt' = [rt EXCEPT !.idx = rt.idx + 1,
                             !.events = Append(rt.events, RouteEvent("error", model, InvalidModel))]
                /\ UNCHANGED <<turns, nextId, chats>>
           ELSE IF model \notin apiKeys
           THEN /\ rt' = [rt EXCEPT !.idx = rt.idx + 1,
                             !.events = Append(rt.events, RouteEvent("error", model, ApiKeyNotSet))]
                /\ UNCHANGED <<turns, nextId, chats>>
           ELSE /\ createTurn(AssistantTurn(rt.userTurn, model, model, <<>>), now)
                /\ rt' = [rt EXCEPT !.pc = "streaming", !.chunks = 0,
                             !.task[model] = "generating", !.turnId[model] = nextId,
                             !.events = Append(rt.events, RouteEvent("turnStart", model, <<>>))]
    /\ UNCHANGED <<now, apiKeys, fan, sess, hook, view, currentChatId, reply, writers, context>>

\* onChunk: the chunk is written to the response; nothing is stored.
NewStreamChunk ==
    /\ rt.kind = "stream" /\ rt.pc = "streaming"
    /\ rt.chunks < MaxChunks
    /\ rt' = [rt EXCEPT !.chunks = rt.chunks + 1,
                 !.events = Append(rt.events,
                                RouteEvent("chunk", rt.models[rt.idx], Chunk(rt.chunks + 1)))]
    /\ UNCHANGED <<turns, nextId, now, apiKeys, chats, fan, sess, hook, view, currentChatId, reply, writers, context>>

\* The adapter's catch block: the provider failed, onError writes an error
\* event for the turn, and the adapter returns normally afterwards.
NewStreamOnError(message) ==
    /\ rt.kind = "stream" /\ rt.pc = "streaming"
    /\ rt' = [rt EXCEPT !.pc = "reported",
                 !.task[rt.models[rt.idx]] = "failed",
                 !.events = Append(rt.events, RouteEvent("error", rt.models[rt.idx], message))]
    /\ UNCHANGED <<turns, nextId, now, apiKeys, chats, fan, sess, hook, view, currentChatId, reply, writers, context>>

\* The provider call returned, after onComplete or after onError: turnEnd is
\* written and the loop goes on.
NewStreamTurnEnd ==
    /\ rt.kind = "stream" /\ rt.pc \in {"streaming", "reported"}
    /\ rt' = [rt EXCEPT !.pc = "loop", !.idx = rt.idx + 1,
                 !.task[rt.models[rt.idx]] =
                     IF rt.pc = "streaming" THEN "done" ELSE "failed",
                 !.events = Append(rt.events, RouteEvent("turnEnd", rt.models[rt.idx], <<>>))]
    /\ UNCHANGED <<turns, nextId, now, apiKeys, chats, fan, sess, hook, view, currentChatId, reply, writers, context>>

\* catch (streamError): onError writes an error event and the loop goes on.
NewStreamError(message) ==
    /\ rt.kind = "stream" /\ rt.pc = "streaming"
    /\ rt' = [rt EXCEPT !.pc = "loop", !.idx = rt.idx + 1,
                 !.task[rt.models[rt.idx]] = "failed",
                 !.events = Append(rt.events, RouteEvent("error", rt.models[rt.idx], message))]
    /\ UNCHANGED <<turns, nextId, now, apiKeys, chats, fan, sess, hook, view, currentChatId, reply, writers, context>>

\* The loop has gone past its first model only.
FirstModelProcessed == rt.idx > 1

\* for (const model of models) has run its body for every model.
AllModelsProcessed == rt.idx > Len(rt.models)

\* res.write({ event: 'done' }); res.end()
NewStreamDone ==
    /\ rt.kind = "stream" /\ rt.pc = "loop" /\ AllModelsProcessed
    /\ rt' = [rt EXCEPT !.pc = "done",
                 !.events = Append(rt.events, RouteEvent("done", NoModel, <<>>))]
    /\ UNCHANGED <<turns, nextId, now, apiKeys, chats, fan, sess, hook, view, currentChatId, reply, writers, context>>

\* The caller goes away; this handler registers no 'close' listener.
NewClientClose ==
    /\ rt.kind = "stream" /\ rt.pc \in {"loop", "streaming", "reported"}
    /\ ~rt.closed
    /\ rt' = [rt EXCEPT !.closed = TRUE]
    /\ UNCHANGED <<turns, nextId, now, apiKeys, chats, fan, sess, hook, view, currentChatId, reply, writers, context>>

\* The turn data a client posts with a role other than 'user': model and
\* parentTurnId are optional in insertTurnSchema.
PostedTurns ==
    {AssistantTurn(parent, "root", model, text) :
        parent \in {Null} \cup (IF turns = <<>> THEN {} ELSE {turns[Len(turns)].id}),
        model \in {NoModel, "claude"}, text \in Texts}

\* POST /turns with turn.role !== 'user': createTurn(validatedData), then
\* res.status(201).json(turn)
NewTurnsStore(turnData) ==
    /\ RouteFree
    /\ turnData.role # "user"
    /\ Len(turns) + 1 <= MaxTurns
    /\ createTurn(turnData, now)
    /\ rt' = [IdleRoute EXCEPT !.kind = "turns", !.pc = "done", !.status = 201]
    /\ UNCHANGED <<now, apiKeys, fan, sess, hook, view, currentChatId, reply, writers, context>>

\* POST /compare: const parentTurn = turns.find(t => t.id === turnId); without
\* one ValidationError (400) is thrown.
NewCompareStart(turnId, models) ==
    /\ RouteFree
    /\ Len(turns) + Len(models) <= MaxTurns
    /\ LET found == SelectSeq(getTurns(turns, ChatId), LAMBDA t : t.id = turnId)
       IN  IF found = <<>>
           THEN rt' = [IdleRoute EXCEPT !.kind = "compare", !.pc = "done",
                                        !.models = models, !.status = 400]
           ELSE rt' = [IdleRoute EXCEPT !.kind = "compare",
                          !.pc = IF models = <<>> THEN "generating" ELSE "validating",
                          !.models = models, !.idx = 1, !.userTurn = found[1].id,
                          !.keysAtStart = apiKeys]
    /\ UNCHANGED <<turns, nextId, now, apiKeys, chats, fan, sess, hook, view, currentChatId, reply, writers, context>>

\* for (const model of models): an invalid model or a missing key throws
\* ValidationError (400); after the loop Promise.all starts one generation per model.
NewCompareValidate ==
    /\ rt.kind = "compare" /\ rt.pc = "validating"
    /\ LET model == rt.models[rt.idx]
       IN  IF model \notin Providers \/ model \notin apiKeys
           THEN rt' = [rt EXCEPT !.pc = "done", !.status = 400]
           ELSE IF rt.idx = Len(rt.models)
           THEN rt' = [rt EXCEPT !.pc = "generating", !.idx = rt.idx + 1,
                                 !.task = GeneratingTasks(rt.models)]
           ELSE rt' = [rt EXCEPT !.idx = rt.idx + 1]
    /\ UNCHANGED <<turns, nextId, now, apiKeys, chats, fan, sess, hook, view, currentChatId, reply, writers, context>>

\* createTurn({ parentTurnId: parentTurn.id, branchId: model, role: 'assistant', ... })
NewCompareGenerated(p, text) ==
    /\ rt.kind = "compare" /\ rt.task[p] = "generating"
    /\ createTurn(AssistantTurn(rt.userTurn, p, p, text), now)
    /\ rt' = [rt EXCEPT !.task[p] = "done", !.turnId[p] = nextId]
    /\ UNCHANGED <<now, apiKeys, fan, sess, hook, view, currentChatId, reply, writers, context>>

\* generateResponse threw: Promise.all rejects and the error middleware answers.
NewCompareFailed(p) ==
    /\ rt.kind = "compare" /\ rt.task[p] = "generating"
    /\ rt' = [rt EXCEPT !.task[p] = "failed", !.pc = "done",
                        !.status = IF rt.status = 0 THEN 500 ELSE rt.status]
    /\ UNCHANGED <<turns, nextId, now, apiKeys, chats, fan, sess, hook, view, currentChatId, reply, writers, context>>

\* res.status(201).json(assistantTurns)
NewCompareRespond ==
    /\ rt.kind = "compare" /\ rt.pc = "generating"
    /\ \A p \in Providers : rt.task[p] \in {"none", "done"}
    /\ rt' = [rt EXCEPT !.pc = "done", !.status = 201]
    /\ UNCHANGED <<turns, nextId, now, apiKeys, chats, fan, sess, hook, view, currentChatId, reply, writers, context>>

-----------------------------------------------------------------------------
(* The client hook useMultiStreaming *)

NoError == <<>>

NoStream == [present |-> FALSE, isStreaming |-> FALSE, content |-> <<>>, error |-> NoError]

IdleHook ==
    [pc |-> "idle", providers |-> {},
     streams |-> [p \in Providers |-> NoStream],
     controllers |-> {}, aborted |-> {},
     reader |-> [p \in Providers |-> "none"],
     accumulated |-> [p \in Providers |-> <<>>],
     results |-> {}, isAnyStreaming |-> FALSE, completed |-> FALSE,
     userTurnPosted |-> FALSE]

\* controller.abort() rejects the pending fetch or read of that provider.
Abort(reader, targets) ==
    [p \in Providers |->
        IF p \in targets /\ reader[p] \in {"fetching", "reading", "closing"}
        THEN "aborted" ELSE reader[p]]

\* providers.map(...) up to each fetch: one AbortController per provider, all
\* kept in abortControllersRef.current.
OpenStreams(h) ==
    [h EXCEPT !.pc = "streaming", !.controllers = h.providers,
              !.reader = [p \in Providers |->
                             IF p \in h.providers THEN "fetching" ELSE "none"]]

\* cancelAllStreams(), then the initial state of every provider; without a
\* parentTurnId the user turn is requested first.
startMultiStream(hasParent, providers) ==
    /\ hook.pc \in {"idle", "finished"}
    /\ providers # {}
    /\ LET started ==
              [IdleHook EXCEPT !.pc = "creatingUserTurn", !.providers = providers,
                  !.streams = [p \in Providers |->
                                  IF p \in providers
                                  THEN [present |-> TRUE, isStreaming |-> TRUE,
                                        content |-> <<>>, error |-> NoError]
                                  ELSE NoStream],
                  !.isAnyStreaming = TRUE, !.userTurnPosted = ~hasParent]
       IN  hook' = IF hasParent THEN OpenStreams(started) ELSE started
    /\ UNCHANGED <<turns, nextId, now, apiKeys, chats, fan, sess, rt, view, currentChatId, reply, writers, context>>

\* The POST /turns for the user turn returned (data.userTurnId is read).
userTurnRequested ==
    /\ hook.pc = "creatingUserTurn"
    /\ hook' = OpenStreams(hook)
    /\ UNCHANGED <<turns, nextId, now, apiKeys, chats, fan, sess, rt, view, currentChatId, reply, writers, context>>

\* fetch resolved: !response.ok throws, which the catch block records.
streamResponse(provider, ok, message) ==
    /\ hook.reader[provider] = "fetching"
    /\ hook' = IF ok
               THEN [hook EXCEPT !.reader[provider] = "reading"]
               ELSE [hook EXCEPT !.reader[provider] = "ended",
                                 !.streams[provider].error = message,
                                 !.streams[provider].isStreaming = FALSE]
    /\ UNCHANGED <<turns, nextId, now, apiKeys, chats, fan, sess, rt, view, currentChatId, reply, writers, context>>

\* data.chunk: accumulatedResponse += data.chunk; content: accumulatedResponse
readChunk(provider) ==
    /\ hook.reader[provider] = "reading"
    /\ Len(hook.accumulated[provider]) < MaxChunks
    /\ LET accumulatedResponse ==
              hook.accumulated[provider] \o Chunk(Len(hook.accumulated[provider]) + 1)
       IN  hook' = [hook EXCEPT !.accumulated[provider] = accumulatedResponse,
                                !.streams[provider].content = accumulatedResponse]
    /\ UNCHANGED <<turns, nextId, now, apiKeys, chats, fan, sess, rt, view, currentChatId, reply, writers, context>>

\* data.error: error: data.error, isStreaming: false
readError(provider, message) ==
    /\ hook.reader[provider] = "reading"
    /\ hook' = [hook EXCEPT !.reader[provider] = "closing",
                            !.streams[provider].error = message,
                            !.streams[provider].isStreaming = FALSE]
    /\ UNCHANGED <<turns, nextId, now, apiKeys, chats, fan, sess, rt, view, currentChatId, reply, writers, context>>

\* data.done: isStreaming: false; results[provider] = accumulatedResponse
readDone(provider) ==
    /\ hook.reader[provider] = "reading"
    /\ hook' = [hook EXCEPT !.reader[provider] = "closing",
                            !.streams[provider].isStreaming = FALSE,
                            !.results = hook.results \cup {provider}]
    /\ UNCHANGED <<turns, nextId, now, apiKeys, chats, fan, sess, rt, view, currentChatId, reply, writers, context>>

\* reader.read() returned done
readerDone(provider) ==
    /\ hook.reader[provider] \in {"reading", "closing"}
    /\ hook' = [hook EXCEPT !.reader[provider] = "ended",
                            !.streams[provider].isStreaming = FALSE,
                            !.results = hook.results \cup {provider}]
    /\ UNCHANGED <<turns, nextId, now, apiKeys, chats, fan, sess, rt, view, currentChatId, reply, writers, context>>

\* The fetch or a read threw something other than AbortError.
streamThrows(provider, message) ==
    /\ hook.reader[provider] \in {"fetching", "reading", "closing"}
    /\ hook' = [hook EXCEPT !.reader[provider] = "ended",
                            !.streams[provider].error = message,
                            !.streams[provider].isStreaming = FALSE]
    /\ UNCHANGED <<turns, nextId, now, apiKeys, chats, fan, sess, rt, view, currentChatId, reply, writers, context>>

\* cancelStream written as cancelAllStreams does it: every controller is aborted.
cancelStreamAll(provider) ==
    /\ provider \in hook.controllers
    /\ hook' = [hook EXCEPT !.aborted = hook.aborted \cup hook.controllers,
                            !.reader = Abort(hook.reader, hook.controllers),
                            !.controllers = {},
                            !.streams[provider].isStreaming = FALSE]
    /\ UNCHANGED <<turns, nextId, now, apiKeys, chats, fan, sess, rt, view, currentChatId, reply, writers, context>>

\* controller.abort(); delete abortControllersRef.current[provider];
\* isStreaming: false for that provider
cancelStream(provider) ==
    /\ provider \in hook.controllers
    /\ hook' = [hook EXCEPT !.aborted = hook.aborted \cup {provider},
                            !.reader = Abort(hook.reader, {provider}),
                            !.controllers = hook.controllers \ {provider},
                            !.streams[provider].isStreaming = FALSE]
    /\ UNCHANGED <<turns, nextId, now, apiKeys, chats, fan, sess, rt, view, currentChatId, reply, writers, context>>

\* Every controller is aborted, the ref is emptied, isAnyStreaming is cleared.
cancelAllStreams ==
    /\ hook.controllers # {}
    /\ hook' = [hook EXCEPT !.aborted = hook.aborted \cup hook.controllers,
                            !.reader = Abort(hook.reader, hook.controllers),
                            !.controllers = {},
                            !.isAnyStreaming = FALSE]
    /\ UNCHANGED <<turns, nextId, now, apiKeys, chats, fan, sess, rt, view, currentChatId, reply, writers, context>>

\* Promise.allSettled(streamPromises) resolved: onComplete runs when every
\* provider has a result.
allSettled ==
    /\ hook.pc = "streaming"
    /\ \A p \in hook.providers : hook.reader[p] \in {"ended", "aborted"}
    /\ hook' = [hook EXCEPT !.pc = "finished", !.isAnyStreaming = FALSE,
                            !.completed = (hook.results = hook.providers)]
    /\ UNCHANGED <<turns, nextId, now, apiKeys, chats, fan, sess, rt, view, currentChatId, reply, writers, context>>

\* useEffect on [streams, isAnyStreaming]
streamsEffect ==
    /\ hook.isAnyStreaming
    /\ \E p \in Providers : hook.streams[p].present
    /\ \A p \in Providers : hook.streams[p].present => ~hook.streams[p].isStreaming
    /\ hook' = [hook EXCEPT !.isAnyStreaming = FALSE]
    /\ UNCHANGED <<turns, nextId, now, apiKeys, chats, fan, sess, rt, view, currentChatId, reply, writers, context>>

-----------------------------------------------------------------------------
(* GET /chats/:chatId/branches/:branchId over a stored conversation *)

MaxStored == 4

NoView == [branchId |-> "none", calls |-> 0, first |-> <<>>, second |-> <<>>]

\* The turns createTurn can append to a store: a user turn on a branch, or an
\* assistant turn answering a stored user turn, on the branch named after its
\* model or on its parent's branch. A user turn, and the first reply after it,
\* is later than what is stored; replies that follow one another may fall in
\* the same millisecond.
NextTurns(store) ==
    LET id == Len(store) + 1
        last == IF store = <<>> THEN Null ELSE store[Len(store)].id
        lastTs == IF store = <<>> THEN 0 ELSE store[Len(store)].timestamp
        later == IF store = <<>> THEN 0 ELSE lastTs + TickMs
        users == SelectSeq(store, LAMBDA t : t.role = "user")
        replies == {NewTurn(AssistantTurn(users[i].id, b, p, text), id, ts) :
                       i \in 1..Len(users), p \in Providers, text \in Texts,
                       b \in BranchIds, ts \in {lastTs, later}}
    IN  {NewTurn(UserTurn(last, b, c), id, later) : b \in StreamBranches, c \in Contents}
        \cup
        {t \in replies :
            /\ t.branchId \in {t.model, TurnById(store, t.parentTurnId).branchId}
            /\ (t.timestamp = lastTs => store[Len(store)].role = "assistant")}

RECURSIVE StoredTurns(_)
StoredTurns(n) ==
    IF n = 0 THEN {<<>>}
    ELSE LET shorter == StoredTurns(n - 1)
         IN  shorter \cup {Append(store, t) :
                              <<store, t>> \in UNION {{store} \X NextTurns(store) :
                                  store \in {x \in shorter : Len(x) = n - 1}}}

\* The first call for a branch.
BranchRead(branchId) ==
    /\ view.calls = 0
    /\ \E result \in getTurnsByBranchResults(turns, ChatId, branchId) :
          view' = [branchId |-> branchId, calls |-> 1, first |-> result, second |-> <<>>]
    /\ UNCHANGED <<turns, nextId, now, apiKeys, chats, fan, sess, rt, hook, currentChatId, reply, writers, context>>

\* The same call once more, nothing stored in between.
BranchReadAgain ==
    /\ view.calls = 1
    /\ \E result \in getTurnsByBranchResults(turns, ChatId, view.branchId) :
          view' = [view EXCEPT !.calls = 2, !.second = result]
    /\ UNCHANGED <<turns, nextId, now, apiKeys, chats, fan, sess, rt, hook, currentChatId, reply, writers, context>>

-----------------------------------------------------------------------------
(* ChatService: every operation looks the chat up before it touches the store *)

MaxChatId == 2

\* The chat ids a caller may address: the ids handed out so far and one more.
ChatIds == 1..(MaxChatId + 1)

Titles == {<<"T">>}

NoReply == [op |-> "none", chatId |-> Null, result |-> "none"]

Reply(op, id, result) == [op |-> op, chatId |-> id, result |-> result]

\* A lookup that finds every chat.
getChatAlways(id) == TRUE

\* storage.getChat(id) returned a chat
getChat(id) == id \in DOMAIN chats

\* if (!chat) throw new NotFoundError(...), else the storage call's result
Outcome(id) == IF getChat(id) THEN "ok" ELSE "NotFoundError"

ChatService_getChat(id) ==
    /\ reply' = Reply("getChat", id, Outcome(id))
    /\ UNCHANGED <<turns, nextId, now, apiKeys, chats, fan, sess, rt, hook, view, currentChatId, writers, context>>

\* storage.createChat: const id = this.currentChatId++
ChatService_createChat(title) ==
    /\ currentChatId <= MaxChatId
    /\ chats' = [c \in DOMAIN chats \cup {currentChatId} |->
                    IF c = currentChatId THEN [title |-> title] ELSE chats[c]]
    /\ currentChatId' = currentChatId + 1
    /\ reply' = Reply("createChat", currentChatId, "ok")
    /\ UNCHANGED <<turns, nextId, now, apiKeys, fan, sess, rt, hook, view, writers, context>>

\* storage.deleteChat: the chat goes, and its turns with it
ChatService_deleteChat(id) ==
    /\ reply' = Reply("deleteChat", id, Outcome(id))
    /\ IF getChat(id)
       THEN /\ chats' = [c \in DOMAIN chats \ {id} |-> chats[c]]
            /\ turns' = SelectSeq(turns, LAMBDA t : t.chatId # id)
       ELSE UNCHANGED <<chats, turns>>
    /\ UNCHANGED <<nextId, now, apiKeys, fan, sess, rt, hook, view, currentChatId, writers, context>>

\* ChatService.deleteChat over PostgresStorage.deleteChat of storage-pg.ts: the
\* messages and the chat row are deleted, the turns are not; turns.chat_id
\* references chats.id (ON DELETE no action), so the delete of a chat that has
\* turns is rejected and the service throws CustomError (500).
ChatService_deleteChatPg(id) ==
    LET hasTurns == \E t \in Range(turns) : t.chatId = id
    IN  /\ reply' = Reply("deleteChat", id,
                          IF ~getChat(id) THEN "NotFoundError"
                          ELSE IF hasTurns THEN "CustomError" ELSE "ok")
        /\ chats' = IF getChat(id) /\ ~hasTurns
                    THEN [c \in DOMAIN chats \ {id} |-> chats[c]]
                    ELSE chats
        /\ UNCHANGED <<turns, nextId, now, apiKeys, fan, sess, rt, hook, view, currentChatId, writers, context>>

ChatService_updateChatTitle(id, title) ==
    /\ reply' = Reply("updateChatTitle", id, Outcome(id))
    /\ IF getChat(id)
       THEN chats' = [c \in DOMAIN chats |-> IF c = id THEN [title |-> title] ELSE chats[c]]
       ELSE UNCHANGED chats
    /\ UNCHANGED <<turns, nextId, now, apiKeys, fan, sess, rt, hook, view, currentChatId, writers, context>>

ChatService_getTurns(id) ==
    /\ reply' = Reply("getTurns", id, Outcome(id))
    /\ UNCHANGED <<turns, nextId, now, apiKeys, chats, fan, sess, rt, hook, view, currentChatId, writers, context>>

ChatService_getTurnsByBranch(id, branchId) ==
    /\ reply' = Reply("getTurnsByBranch", id, Outcome(id))
    /\ UNCHANGED <<turns, nextId, now, apiKeys, chats, fan, sess, rt, hook, view, currentChatId, writers, context>>

\* The turns a caller asks the service to create: a user turn on root, or a
\* reply to a stored user turn.
TurnData(id) ==
    {[UserTurn(Null, "root", c) EXCEPT !.chatId = id] : c \in Contents}
    \cup
    {[AssistantTurn(u.id, p, p, text) EXCEPT !.chatId = id] :
        u \in {t \in Range(turns) : t.role = "user" /\ t.chatId = id},
        p \in Providers, text \in Texts}

\* Bound on the turns stored through the service in one exploration.
MaxServiceTurns == 2

ChatService_createTurn(turnData) ==
    /\ Len(turns) < MaxServiceTurns
    /\ reply' = Reply("createTurn", turnData.chatId, Outcome(turnData.chatId))
    /\ IF getChat(turnData.chatId)
       THEN createTurn(turnData, now)
       ELSE UNCHANGED <<turns, nextId, chats>>
    /\ UNCHANGED <<now, apiKeys, fan, sess, rt, hook, view, currentChatId, writers, context>>

ChatService_getLastUserTurn(id) ==
    /\ reply' = Reply("getLastUserTurn", id, Outcome(id))
    /\ UNCHANGED <<turns, nextId, now, apiKeys, chats, fan, sess, rt, hook, view, currentChatId, writers, context>>

-----------------------------------------------------------------------------
(* PostgresStorage.createTurn statement by statement: the insert, the select *)
(* of the chat's user turns and the title update are separate awaits, so the *)
(* calls of concurrent requests interleave between them                    *)

Writers == {1, 2}

IdleWriter == [pc |-> "idle", role |-> "user", content |-> <<>>, userTurns |-> 0]

\* A content of TitleLength + 1 characters.
LongContent == [i \in 1..(TitleLength + 1) |-> "x"]

\* The turns the concurrent requests store: user turns with a short or a long
\* content, and a reply to the latest turn.
WrittenTurns ==
    {UserTurn(Null, "root", c) : c \in Contents \cup {LongContent}}
    \cup {AssistantTurn(turns[Len(turns)].id, p, p, text) :
              p \in (IF turns = <<>> THEN {} ELSE {"claude"}), text \in Texts}

\* await db.insert(turns).values({ ...insertTurn, timestamp: new Date() }).returning()
PgInsertTurn(w, insertTurn) ==
    /\ writers[w].pc = "idle"
    /\ Len(turns) < MaxTurns
    /\ turns' = Append(turns, NewTurn(insertTurn, nextId, now))
    /\ nextId' = nextId + 1
    /\ writers' = [writers EXCEPT ![w] =
                       [pc |-> IF insertTurn.role = "user" THEN "inserted" ELSE "idle",
                        role |-> insertTurn.role, content |-> insertTurn.content,
                        userTurns |-> 0]]
    /\ UNCHANGED <<now, apiKeys, chats, fan, sess, rt, hook, view, currentChatId, reply, context>>

\* const userTurns = await db.select().from(turns).where(chatId and role 'user')
PgSelectUserTurns(w) ==
    /\ writers[w].pc = "inserted"
    /\ writers' = [writers EXCEPT ![w].pc = "selected",
                                  ![w].userTurns = Len(UserTurnsOf(turns, ChatId))]
    /\ UNCHANGED <<turns, nextId, now, apiKeys, chats, fan, sess, rt, hook, view, currentChatId, reply, context>>

\* if (userTurns.length === 1) await this.updateChatTitle(chatId, title); return
PgUpdateTitle(w) ==
    /\ writers[w].pc = "selected"
    /\ chats' = IF writers[w].userTurns = 1
                THEN [chats EXCEPT ![ChatId].title = DeriveTitle(writers[w].content)]
                ELSE chats
    /\ writers' = [writers EXCEPT ![w].pc = "idle"]
    /\ UNCHANGED <<turns, nextId, now, apiKeys, fan, sess, rt, hook, view, currentChatId, reply, context>>

-----------------------------------------------------------------------------
(* formatTurnsHistory: the context window handed to a provider *)

MaxWindow == 4

NoContext ==
    [calls |-> 0, size |-> 0, history |-> <<>>, recent |-> <<>>, passed |-> <<>>,
     userTurn |-> Null]

\* Array.prototype.slice(-n): a negative start counts from the end, -0 is 0
SliceFromEnd(seq, n) ==
    LET start == IF -n < 0
                 THEN (IF Len(seq) - n < 0 THEN 0 ELSE Len(seq) - n)
                 ELSE (IF -n > Len(seq) THEN Len(seq) ELSE -n)
    IN  SubSeq(seq, start + 1, Len(seq))

\* sortedTurns.slice(-contextWindowSize)
recentTurns(history, contextWindowSize) ==
    SliceFromEnd(OrderByTimestamp(history), contextWindowSize)

\* { role: turn.role, content: turn.content, modelId: turn.model }
ConversationMessage(turn) ==
    [role |-> turn.role, content |-> turn.content, modelId |-> turn.model]

formatTurnsHistory(history, contextWindowSize) ==
    IF history = <<>> THEN <<>>
    ELSE LET recent == recentTurns(history, contextWindowSize)
         IN  [i \in 1..Len(recent) |-> ConversationMessage(recent[i])]

\* streamLLMResponseFromTurns(provider, prompt, apiKey, res, conversationHistory,
\* contextWindowSize) formats the branch's history before it calls the provider.
FormatHistory(branchId, contextWindowSize) ==
    /\ LET history == getTurnsByBranch(turns, ChatId, branchId)
       IN  context' = [calls |-> 1, size |-> contextWindowSize, history |-> history,
                       recent |-> IF history = <<>> THEN <<>>
                                  ELSE recentTurns(history, contextWindowSize),
                       passed |-> formatTurnsHistory(history, contextWindowSize),
                       userTurn |-> Null]
    /\ UNCHANGED <<turns, nextId, now, apiKeys, chats, fan, sess, rt, hook, view, currentChatId, reply, writers>>

DEFAULT_CONTEXT_WINDOW_SIZE == 10

\* const fullConversation = [...formattedHistory, { role: 'user', content: prompt }]
fullConversation(prompt, conversationHistory, contextWindowSize) ==
    Append(formatTurnsHistory(conversationHistory, contextWindowSize),
           [role |-> "user", content |-> prompt])

\* storage.getBranchTurns(chatId, branchId) of whichever storage is bound.
BranchTurnsResults(store, chatId, branchId) ==
    {getBranchTurns(store, chatId, branchId),
     MemStorage_getBranchTurns(store, chatId, branchId)}

\* The call generateLLMResponseFromTurns / streamLLMResponseFromTurns(provider,
\* content, apiKey, ..., conversationHistory) of a request whose user turn is
\* userTurnId.
ProviderCall(userTurnId, prompt, conversationHistory) ==
    [calls |-> 1, size |-> DEFAULT_CONTEXT_WINDOW_SIZE,
     history |-> conversationHistory,
     recent |-> IF conversationHistory = <<>> THEN <<>>
                ELSE recentTurns(conversationHistory, DEFAULT_CONTEXT_WINDOW_SIZE),
     passed |-> fullConversation(prompt, conversationHistory, DEFAULT_CONTEXT_WINDOW_SIZE),
     userTurn |-> userTurnId]

\* POST /turns up to the provider calls: the user turn is created, then the
\* branch is read, and that history goes to every provider with the content.
TurnsConversation(r, content, branchId, parentTurnId, selectedModels) ==
    /\ SlotFree(r)
    /\ selectedModels # {}
    /\ Len(turns) + Outstanding + 1 + Cardinality(selectedModels) <= MaxTurns
    /\ createTurn(UserTurn(parentTurnId, branchId, content), now)
    /\ fan' = [fan EXCEPT ![r] =
                  [IdleFan EXCEPT !.kind = "turns", !.pc = "running",
                                  !.content = content, !.branchId = branchId,
                                  !.userTurn = nextId,
                                  !.task = [p \in Providers |->
                                       IF p \in selectedModels THEN "pending" ELSE "none"]]]
    /\ \E conversationHistory \in BranchTurnsResults(turns', ChatId, branchId) :
           context' = ProviderCall(nextId, content, conversationHistory)
    /\ UNCHANGED <<now, apiKeys, sess, rt, hook, view, currentChatId, reply, writers>>

\* POST /stream from the key check to the provider call: with a key, the branch
\* is read after the user turn was created or reused, and streaming begins.
StreamConversation(s) ==
    /\ sess[s].pc = "key"
    /\ IF sess[s].provider \in apiKeys
       THEN /\ sess' = [sess EXCEPT ![s].pc = "streaming", ![s].status = 200]
            /\ \E conversationHistory \in
                      BranchTurnsResults(turns, ChatId, sess[s].branchId) :
                   context' = ProviderCall(sess[s].userTurn, sess[s].content,
                                           conversationHistory)
       ELSE /\ sess' = [sess EXCEPT ![s].pc = "done", ![s].status = 400]
            /\ UNCHANGED context
    /\ UNCHANGED <<turns, nextId, now, apiKeys, chats, fan, rt, hook, view, currentChatId, reply, writers>>

-----------------------------------------------------------------------------
\* An id that names no stored turn.
UnknownTurnId == 99

\* The parentTurnId a client sends: none, an id that names no turn, or the
\* latest stored turn.
ParentChoices ==
    {Null, UnknownTurnId} \cup (IF turns = <<>> THEN {} ELSE {turns[Len(turns)].id})

SetApiKey(p) ==
    /\ p \notin apiKeys
    /\ apiKeys' = apiKeys \cup {p}
    /\ UNCHANGED <<turns, nextId, now, chats>>
    /\ UNCHANGED requests

Tick ==
    /\ now < MaxTicks * TickMs
    /\ now' = now + TickMs
    /\ UNCHANGED <<turns, nextId, apiKeys, chats>>
    /\ UNCHANGED requests

Init ==
    /\ turns = <<>>
    /\ nextId = 1
    /\ now = 0
    /\ apiKeys = {}
    /\ chats = [c \in {ChatId} |-> [title |-> InitialTitle]]
    /\ fan = [r \in FanReqs |-> IdleFan]
    /\ sess = [s \in Sessions |-> IdleSession]
    /\ rt = IdleRoute
    /\ hook = IdleHook
    /\ view = NoView
    /\ currentChatId = ChatId + 1
    /\ reply = NoReply
    /\ writers = [w \in Writers |-> IdleWriter]
    /\ context = NoContext

Next ==
    \/ \E p \in Providers : SetApiKey(p)
    \/ \E r \in FanReqs, c \in Contents, b \in StreamBranches,
          parent \in ParentChoices, ms \in SUBSET Providers :
          TurnsStart(r, c, b, parent, ms)
    \/ \E r \in FanReqs, id \in Ids(turns), ms \in SUBSET Providers :
          CompareStart(r, id, ms)
    \/ \E r \in FanReqs, p \in Providers : TaskKeyCheck(r, p)
    \/ \E r \in FanReqs, p \in Providers, text \in Texts : TaskGenerated(r, p, text)
    \/ \E r \in FanReqs, p \in Providers, m \in ErrorMessages : TaskFailed(r, p, m)
    \/ \E r \in FanReqs : FanRespond(r)

Spec == Init /\ [][Next]_vars

\* One session from request to end: the provider streams, the caller may go away.
NextStream ==
    \/ \E p \in Providers : SetApiKey(p)
    \/ Tick
    \/ \E c \in StreamContents, b \in StreamBranches, p \in Providers :
          StreamStart(1, c, b, p)
    \/ StreamCreate(1)
    \/ StreamKeyCheck(1)
    \/ ProviderChunk(1)
    \/ ClientClose(1)
    \/ ProviderComplete(1)
    \/ \E m \in ErrorMessages : ProviderError(1, m)

SpecStream == Init /\ [][NextStream]_vars

\* Two sessions racing for the user turn; their providers answer without chunks
\* and the callers stay connected.
NextDedup ==
    \/ \E p \in Providers : SetApiKey(p)
    \/ Tick
    \/ \E s \in Sessions, c \in StreamContents, b \in StreamBranches, p \in Providers :
          StreamStart(s, c, b, p)
    \/ \E s \in Sessions : StreamCreate(s)
    \/ \E s \in Sessions : StreamKeyCheck(s)
    \/ \E s \in Sessions : ProviderComplete(s)
    \/ \E s \in Sessions, m \in ErrorMessages : ProviderError(s, m)

SpecDedup == Init /\ [][NextDedup]_vars

\* The refactored routes, one request at a time.
NextNew ==
    \/ \E p \in Providers : SetApiKey(p)
    \/ \E c \in Contents, b \in StreamBranches, parent \in ParentChoices,
          ms \in ModelLists : NewTurnsStart(c, b, parent, ms)
    \/ NewTurnsValidate
    \/ \E p \in Providers, text \in Texts : NewTurnsGenerated(p, text)
    \/ \E p \in Providers : NewTurnsFailed(p)
    \/ NewTurnsRespond
    \/ \E c \in Contents, parent \in ParentChoices, ms \in ModelLists :
          NewStreamStart(c, parent, ms)
    \/ NewStreamModel
    \/ NewStreamChunk
    \/ NewStreamTurnEnd
    \/ \E m \in ErrorMessages : NewStreamOnError(m)
    \/ \E m \in ErrorMessages : NewStreamError(m)
    \/ NewStreamDone
    \/ NewClientClose

SpecNew == Init /\ [][NextNew]_vars

\* The refactored POST /turns without models and POST /compare.
NextNewCompare ==
    \/ \E p \in Providers : SetApiKey(p)
    \/ \E c \in Contents, b \in StreamBranches : NewTurnsStart(c, b, Null, <<>>)
    \/ NewTurnsRespond
    \/ \E turnData \in PostedTurns : NewTurnsStore(turnData)
    \/ \E id \in Ids(turns) \cup {UnknownTurnId}, ms \in ModelLists : NewCompareStart(id, ms)
    \/ NewCompareValidate
    \/ \E p \in Providers, text \in Texts : NewCompareGenerated(p, text)
    \/ \E p \in Providers : NewCompareFailed(p)
    \/ NewCompareRespond

SpecNewCompare == Init /\ [][NextNewCompare]_vars

\* The client hook; what the server sends is the hook's input.
NextClient ==
    \/ \E hasParent \in BOOLEAN, ps \in SUBSET Providers : startMultiStream(hasParent, ps)
    \/ userTurnRequested
    \/ \E p \in Providers, ok \in BOOLEAN, m \in ErrorMessages : streamResponse(p, ok, m)
    \/ \E p \in Providers : readChunk(p)
    \/ \E p \in Providers, m \in ErrorMessages : readError(p, m)
    \/ \E p \in Providers : readDone(p)
    \/ \E p \in Providers : readerDone(p)
    \/ \E p \in Providers, m \in ErrorMessages : streamThrows(p, m)
    \/ \E p \in Providers : cancelStream(p)
    \/ cancelAllStreams
    \/ allSettled
    \/ streamsEffect

SpecClient == Init /\ [][NextClient]_vars

\* A conversation as stored, read branch by branch.
InitResolve ==
    /\ turns \in StoredTurns(MaxStored)
    /\ nextId = Len(turns) + 1
    /\ now = IF turns = <<>> THEN 0 ELSE turns[Len(turns)].timestamp
    /\ apiKeys = {}
    /\ chats = [c \in {ChatId} |->
                   [title |-> IF turns = <<>> THEN InitialTitle
                              ELSE DeriveTitle(turns[1].content)]]
    /\ fan = [r \in FanReqs |-> IdleFan]
    /\ sess = [s \in Sessions |-> IdleSession]
    /\ rt = IdleRoute
    /\ hook = IdleHook
    /\ view = NoView
    /\ currentChatId = ChatId + 1
    /\ reply = NoReply
    /\ writers = [w \in Writers |-> IdleWriter]
    /\ context = NoContext

NextResolve ==
    \/ \E b \in BranchIds : BranchRead(b)
    \/ BranchReadAgain

SpecResolve == InitResolve /\ [][NextResolve]_vars

\* The chat service, one call after the other.
NextChat ==
    \/ \E id \in ChatIds : ChatService_getChat(id)
    \/ \E title \in Titles : ChatService_createChat(title)
    \/ \E id \in ChatIds : ChatService_deleteChat(id)
    \/ \E id \in ChatIds, title \in Titles : ChatService_updateChatTitle(id, title)
    \/ \E id \in ChatIds : ChatService_getTurns(id)
    \/ \E id \in ChatIds, b \in BranchIds : ChatService_getTurnsByBranch(id, b)
    \/ \E id \in ChatIds : \E turnData \in TurnData(id) : ChatService_createTurn(turnData)
    \/ \E id \in ChatIds : ChatService_getLastUserTurn(id)

SpecChat == Init /\ [][NextChat]_vars

\* The chat service over the PostgresStorage of storage-pg.ts.
NextChatPg ==
    \/ \E id \in ChatIds : ChatService_getChat(id)
    \/ \E title \in Titles : ChatService_createChat(title)
    \/ \E id \in ChatIds : ChatService_deleteChatPg(id)
    \/ \E id \in ChatIds : \E turnData \in TurnData(id) : ChatService_createTurn(turnData)

SpecChatPg == Init /\ [][NextChatPg]_vars

\* POST /turns and POST /compare with a store whose inserts can be rejected.
NextPersist ==
    \/ Next
    \/ \E r \in FanReqs, p \in Providers, stillFailing \in BOOLEAN :
          TaskPersistFailed(r, p, stillFailing)
    \/ \E r \in FanReqs : FanSettled(r)

SpecPersist == Init /\ [][NextPersist]_vars

\* Two /stream sessions whose providers stream at the same time.
NextRelay ==
    \/ \E p \in Providers : SetApiKey(p)
    \/ \E s \in Sessions, c \in Contents, p \in Providers : StreamStart(s, c, "root", p)
    \/ \E s \in Sessions : StreamCreate(s)
    \/ \E s \in Sessions : StreamKeyCheck(s)
    \/ \E s \in Sessions : ProviderChunk(s)
    \/ \E s \in Sessions : ProviderComplete(s)

SpecRelay == Init /\ [][NextRelay]_vars

\* The refactored POST /stream alone.  The handler's own steps and the answers
\* of openai are taken when they are possible; claude may stay silent for ever.
NextNewStream ==
    \/ \E p \in Providers : SetApiKey(p)
    \/ \E c \in Contents, parent \in ParentChoices, ms \in ModelLists :
          NewStreamStart(c, parent, ms)
    \/ NewStreamModel
    \/ NewStreamChunk
    \/ NewStreamTurnEnd
    \/ \E m \in ErrorMessages : NewStreamOnError(m)
    \/ \E m \in ErrorMessages : NewStreamError(m)
    \/ NewStreamDone
    \/ NewClientClose

OpenAIAnswers ==
    /\ rt.pc = "streaming" /\ rt.models[rt.idx] = "openai"
    /\ NewStreamTurnEnd

SpecNewStreamFair ==
    /\ Init /\ [][NextNewStream]_vars
    /\ WF_vars(NewStreamModel)
    /\ WF_vars(NewStreamDone)
    /\ WF_vars(OpenAIAnswers)

\* Concurrent createTurn calls against the database.
NextTitle ==
    \/ \E w \in Writers : \E insertTurn \in WrittenTurns : PgInsertTurn(w, insertTurn)
    \/ \E w \in Writers : PgSelectUserTurns(w)
    \/ \E w \in Writers : PgUpdateTitle(w)

SpecTitle == Init /\ [][NextTitle]_vars

\* The history of a stored conversation, formatted for a provider.
NextContext ==
    \E b \in BranchIds, n \in 0..MaxWindow : FormatHistory(b, n)

SpecContext == InitResolve /\ [][NextContext]_vars

-----------------------------------------------------------------------------
(* POST /stream of routes.new.ts over the exported MemStorage *)

\* MemStorage.createTurn: { ...insertTurn, id, ... } with id = crypto.randomUUID()
\* written after the spread, so an id carried by insertTurn is replaced.  drawn
\* is the number of UUIDs the caller has drawn since the last stored turn.
MemStorage_createTurn(insertTurn, drawn, ts) ==
    LET turn == NewTurn(insertTurn, nextId + drawn, ts)
        stored == Append(turns, turn)
    IN  /\ turns' = stored
        /\ nextId' = nextId + drawn + 1
        /\ chats' =
              IF /\ turn.role = "user" /\ Len(UserTurnsOf(stored, turn.chatId)) = 1
                 /\ turn.chatId \in DOMAIN chats
              THEN [chats EXCEPT ![turn.chatId].title = DeriveTitle(turn.content)]
              ELSE chats

\* userTurnId = crypto.randomUUID(); createTurn({ id: userTurnId, ... }); the
\* userTurn event carries userTurnId.
MemStreamStart(content, parentTurnId, models) ==
    /\ RouteFree
    /\ models # <<>>
    /\ Len(turns) + 1 + Len(models) <= MaxTurns
    /\ LET userTurnId == nextId
       IN  /\ MemStorage_createTurn(UserTurn(parentTurnId, "root", content), 1, now)
           /\ rt' = [IdleRoute EXCEPT !.kind = "stream", !.pc = "loop", !.models = models,
                                      !.idx = 1, !.userTurn = userTurnId, !.status = 200,
                                      !.keysAtStart = apiKeys,
                                      !.events = <<RouteEvent("userTurn", NoModel, <<>>)>>]
    /\ UNCHANGED <<now, apiKeys, fan, sess, hook, view, currentChatId, reply, writers, context>>

\* assistantTurnId = crypto.randomUUID(); turnStart carries it; createTurn({ id:
\* assistantTurnId, parentTurnId: userTurnId, ... }).
MemStreamModel ==
    /\ rt.kind = "stream" /\ rt.pc = "loop" /\ rt.idx <= Len(rt.models)
    /\ LET model == rt.models[rt.idx]
           assistantTurnId == nextId
       IN  IF model \notin Providers
           THEN /\ rt' = [rt EXCEPT !.idx = rt.idx + 1,
                             !.events = Append(rt.events, RouteEvent("error", model, InvalidModel))]
                /\ UNCHANGED <<turns, nextId, chats>>
           ELSE IF model \notin apiKeys
           THEN /\ rt' = [rt EXCEPT !.idx = rt.idx + 1,
                             !.events = Append(rt.events, RouteEvent("error", model, ApiKeyNotSet))]
                /\ UNCHANGED <<turns, nextId, chats>>
           ELSE /\ MemStorage_createTurn(AssistantTurn(rt.userTurn, model, model, <<>>), 1, now)
                /\ rt' = [rt EXCEPT !.pc = "streaming", !.chunks = 0,
                             !.task[model] = "generating", !.turnId[model] = assistantTurnId,
                             !.events = Append(rt.events, RouteEvent("turnStart", model, <<>>))]
    /\ UNCHANGED <<now, apiKeys, fan, sess, hook, view, currentChatId, reply, writers, context>>

NextMemStream ==
    \/ \E p \in Providers : SetApiKey(p)
    \/ \E c \in Contents, parent \in ParentChoices, ms \in ModelLists :
          MemStreamStart(c, parent, ms)
    \/ MemStreamModel
    \/ NewStreamChunk
    \/ NewStreamTurnEnd
    \/ \E m \in ErrorMessages : NewStreamOnError(m)
    \/ \E m \in ErrorMessages : NewStreamError(m)
    \/ NewStreamDone

SpecMemStream == Init /\ [][NextMemStream]_vars

\* The legacy POST /turns and POST /stream with the conversation each hands to
\* its provider.
NextPrompt ==
    \/ \E p \in Providers : SetApiKey(p)
    \/ \E r \in FanReqs, c \in Contents, b \in StreamBranches, ms \in SUBSET Providers :
          TurnsConversation(r, c, b, Null, ms)
    \/ \E r \in FanReqs, p \in Providers : TaskKeyCheck(r, p)
    \/ \E r \in FanReqs, p \in Providers, text \in Texts : TaskGenerated(r, p, text)
    \/ \E r \in FanReqs : FanRespond(r)
    \/ \E c \in StreamContents, b \in StreamBranches, p \in Providers :
          StreamStart(1, c, b, p)
    \/ StreamCreate(1)
    \/ StreamConversation(1)
    \/ ProviderComplete(1)

SpecPrompt == Init /\ [][NextPrompt]_vars

-----------------------------------------------------------------------------
(* The single-stream client hook useStreaming (use-streaming.ts) *)

\* The frames a /stream response body carries: k chunks, then { done: true } or
\* { error }, then the end of the body.
ResponseBodies ==
    {[i \in 1..(k + 1) |->
         IF i <= k THEN [event |-> "chunk", data |-> Chunk(i)] ELSE last] :
       k \in 0..MaxChunks,
       last \in {[event |-> "done", data |-> <<>>]}
                  \cup {[event |-> "error", data |-> m] : m \in ErrorMessages}}

\* useState(false), useState(''), useState(null); no request yet.  completions
\* lists the arguments of the onComplete calls in order.
IdleStreaming ==
    [pc |-> "idle", provider |-> NoModel, isStreaming |-> FALSE,
     streamedContent |-> <<>>, error |-> NoError, accumulatedResponse |-> <<>>,
     body |-> <<>>, sent |-> <<>>, cancelled |-> FALSE, completions |-> <<>>]

\* startStream: cancelStream(), the state is reset, the response arrives with a
\* readable body and processStream starts.
startStream(provider, body) ==
    /\ hook.pc \in {"idle", "ended"}
    /\ hook' = [IdleStreaming EXCEPT !.pc = "reading", !.provider = provider,
                                     !.isStreaming = TRUE, !.body = body, !.sent = body]
    /\ UNCHANGED <<turns, nextId, now, apiKeys, chats, fan, sess, rt, view, currentChatId, reply, writers, context>>

\* reader.read() delivered a line with data.chunk
processStream_chunk ==
    /\ hook.pc = "reading" /\ hook.body # <<>> /\ Head(hook.body).event = "chunk"
    /\ LET accumulated == hook.accumulatedResponse \o Head(hook.body).data
       IN  hook' = [hook EXCEPT !.body = Tail(hook.body),
                                !.accumulatedResponse = accumulated,
                                !.streamedContent = accumulated]
    /\ UNCHANGED <<turns, nextId, now, apiKeys, chats, fan, sess, rt, view, currentChatId, reply, writers, context>>

\* data.done: setIsStreaming(false); onComplete(accumulatedResponse); break
\* leaves the for loop over the lines and the while loop reads on.
processStream_done ==
    /\ hook.pc = "reading" /\ hook.body # <<>> /\ Head(hook.body).event = "done"
    /\ hook' = [hook EXCEPT !.body = Tail(hook.body), !.isStreaming = FALSE,
                            !.completions = Append(@, hook.accumulatedResponse)]
    /\ UNCHANGED <<turns, nextId, now, apiKeys, chats, fan, sess, rt, view, currentChatId, reply, writers, context>>

\* data.error: setError(data.error); setIsStreaming(false); break leaves the for
\* loop and the while loop reads on.
processStream_error ==
    /\ hook.pc = "reading" /\ hook.body # <<>> /\ Head(hook.body).event = "error"
    /\ hook' = [hook EXCEPT !.body = Tail(hook.body), !.isStreaming = FALSE,
                            !.error = Head(hook.body).data]
    /\ UNCHANGED <<turns, nextId, now, apiKeys, chats, fan, sess, rt, view, currentChatId, reply, writers, context>>

\* reader.read() returned done: setIsStreaming(false); onComplete(accumulatedResponse)
processStream_end ==
    /\ hook.pc = "reading" /\ hook.body = <<>>
    /\ hook' = [hook EXCEPT !.pc = "ended", !.isStreaming = FALSE,
                            !.completions = Append(@, hook.accumulatedResponse)]
    /\ UNCHANGED <<turns, nextId, now, apiKeys, chats, fan, sess, rt, view, currentChatId, reply, writers, context>>

\* cancelStream: abort(); reader.read() rejects with AbortError, which the catch
\* block does not report.
useStreaming_cancelStream ==
    /\ hook.pc = "reading"
    /\ hook' = [hook EXCEPT !.pc = "ended", !.isStreaming = FALSE, !.cancelled = TRUE]
    /\ UNCHANGED <<turns, nextId, now, apiKeys, chats, fan, sess, rt, view, currentChatId, reply, writers, context>>

\* reader.read() rejects with another error: setError(message); setIsStreaming(false)
processStream_throws(message) ==
    /\ hook.pc = "reading"
    /\ hook' = [hook EXCEPT !.pc = "ended", !.isStreaming = FALSE, !.error = message]
    /\ UNCHANGED <<turns, nextId, now, apiKeys, chats, fan, sess, rt, view, currentChatId, reply, writers, context>>

InitStreaming ==
    /\ turns = <<>>
    /\ nextId = 1
    /\ now = 0
    /\ apiKeys = {}
    /\ chats = [c \in {ChatId} |-> [title |-> InitialTitle]]
    /\ fan = [r \in FanReqs |-> IdleFan]
    /\ sess = [s \in Sessions |-> IdleSession]
    /\ rt = IdleRoute
    /\ hook = IdleStreaming
    /\ view = NoView
    /\ currentChatId = ChatId + 1
    /\ reply = NoReply
    /\ writers = [w \in Writers |-> IdleWriter]
    /\ context = NoContext

NextStreaming ==
    \/ \E p \in Providers, body \in ResponseBodies : startStream(p, body)
    \/ processStream_chunk
    \/ processStream_done
    \/ processStream_error
    \/ processStream_end
    \/ useStreaming_cancelStream
    \/ \E m \in ErrorMessages : processStream_throws(m)

SpecStreaming == InitStreaming /\ [][NextStreaming]_vars

-----------------------------------------------------------------------------
(* DELETE /chats/:id beside a POST /stream session, over MemStorage *)

\* DELETE /chats/:id: storage.deleteChat(id); 404 when it returns false, else 204.
\* MemStorage.deleteChat drops the chat, its messages and its turns.
DeleteChatRoute(id) ==
    /\ reply' = Reply("deleteChat", id, IF getChat(id) THEN "204" ELSE "404")
    /\ IF getChat(id)
       THEN /\ chats' = [c \in DOMAIN chats \ {id} |-> chats[c]]
            /\ turns' = SelectSeq(turns, LAMBDA t : t.chatId # id)
       ELSE UNCHANGED <<chats, turns>>
    /\ UNCHANGED <<nextId, now, apiKeys, fan, sess, rt, hook, view, currentChatId, writers, context>>

\* POST /stream begins with storage.getChat(chatId): 404 "Chat not found" when
\* the chat is missing, and nothing else happens.
StreamStartChecked(s, content, branchId, provider) ==
    IF getChat(ChatId)
    THEN StreamStart(s, content, branchId, provider)
    ELSE /\ sess[s].pc = "idle"
         /\ sess' = [sess EXCEPT ![s] =
                        [IdleSession EXCEPT !.pc = "done", !.status = 404,
                                            !.content = content, !.branchId = branchId,
                                            !.provider = provider]]
         /\ UNCHANGED <<turns, nextId, now, apiKeys, chats>>
         /\ UNCHANGED notStream

NextDelete ==
    \/ \E p \in Providers : SetApiKey(p)
    \/ \E c \in Contents, b \in StreamBranches, p \in Providers :
          StreamStartChecked(1, c, b, p)
    \/ StreamCreate(1)
    \/ StreamKeyCheck(1)
    \/ ProviderChunk(1)
    \/ ClientClose(1)
    \/ ProviderComplete(1)
    \/ DeleteChatRoute(ChatId)

SpecDelete == Init /\ [][NextDelete]_vars

-----------------------------------------------------------------------------
(* One send of useMultiStreaming against the legacy POST /turns and POST /stream *)

\* fetch(`/api/chats/${chatId}/turns`, { selectedModels: [providers[0]] }): the
\* request for the shared user turn reaches the server.
sharedUserTurnRequest(content, first) ==
    /\ hook.pc = "creatingUserTurn"
    /\ fan[1].kind = "idle"
    /\ first \in hook.providers
    /\ TurnsStart(1, content, "root", Null, {first})

\* createUserTurnResponse arrived; the streams are opened afterwards.
sharedUserTurnResponse ==
    /\ fan[1].pc = "done"
    /\ userTurnRequested

\* fetch(`/api/chats/${chatId}/stream`, { content, branchId, provider }) of one
\* provider of the send reaches the server.
providerStreamRequest(s, content, provider) ==
    /\ hook.pc = "streaming"
    /\ provider \in hook.providers
    /\ \A q \in Sessions : sess[q].pc # "idle" => sess[q].provider # provider
    /\ StreamStart(s, content, "root", provider)

NextSend ==
    \/ \E p \in Providers : SetApiKey(p)
    \/ Tick
    \/ \E ps \in SUBSET Providers : startMultiStream(FALSE, ps)
    \/ \E c \in Contents, first \in Providers : sharedUserTurnRequest(c, first)
    \/ \E p \in Providers : TaskKeyCheck(1, p)
    \/ \E p \in Providers, text \in Texts : TaskGenerated(1, p, text)
    \/ FanRespond(1)
    \/ sharedUserTurnResponse
    \/ \E s \in Sessions, c \in Contents, p \in Providers : providerStreamRequest(s, c, p)
    \/ \E s \in Sessions : StreamCreate(s)
    \/ \E s \in Sessions : StreamKeyCheck(s)
    \/ \E s \in Sessions : ProviderChunk(s)
    \/ \E s \in Sessions : ProviderComplete(s)

SpecSend == Init /\ [][NextSend]_vars

-----------------------------------------------------------------------------
(* Claims about the resolver and the fan-out, checked under Spec *)

Assistants(seq) == SelectSeq(seq, LAMBDA t : t.role = "assistant")

\* C1: resolving branch "root" returns at most one assistant turn per user turn:
\* no two returned assistant turns share a parentTurnId, whatever replies the
\* fan-out and compare requests have stored.
C1_RootOneReplyPerUserTurn ==
    LET replies == Assistants(getTurnsByBranch(turns, ChatId, "root"))
    IN  \A i, j \in 1..Len(replies) :
            i # j => replies[i].parentTurnId # replies[j].parentTurnId

\* A root user turn has two stored replies and the root view shows one of them.
C1_Witness ==
    \E u \in Range(turns) :
        /\ u.role = "user" /\ u.branchId = "root"
        /\ Len(RootResponsesAll(turns, u)) >= 2
        /\ Len(Assistants(getTurnsByBranch(turns, ChatId, "root"))) = 1

\* The membership rule of a non-root branch B.
BranchMember(turn, B) ==
    \/ turn.branchId = B
    \/ (turn.branchId = "root" /\ turn.role = "user")
    \/ (turn.role = "assistant" /\ turn.model = B)

\* C2: for every branch id B other than "root", every turn returned by resolving
\* B (getTurnsByBranch, MemStorage.getBranchTurns, PostgresStorage.getBranchTurns)
\* has branchId B, or is a root user turn, or is an assistant turn of model B.
C2_NonRootMembership ==
    \A B \in Providers :
        /\ \A t \in Range(getTurnsByBranch(turns, ChatId, B)) : BranchMember(t, B)
        /\ \A t \in Range(MemStorage_getBranchTurns(turns, ChatId, B)) : BranchMember(t, B)
        /\ \A t \in Range(getBranchTurns(turns, ChatId, B)) : BranchMember(t, B)

\* C4: in one POST /turns fan-out where one provider's generation fails and
\* another's succeeds, the successful provider's turn holds its full generated
\* text, the failed provider's turn starts with "Error: ", both answer the new
\* user turn, and the request is answered 201.
C4_PartialFailureIsolation ==
    \A r \in FanReqs :
        fan[r].kind = "turns" =>
            /\ \A p \in Providers :
                  /\ fan[r].task[p] = "ok" =>
                        /\ fan[r].turnId[p] \in Ids(turns)
                        /\ LET t == TurnById(turns, fan[r].turnId[p])
                           IN  /\ t.content = fan[r].gen[p]
                               /\ t.role = "assistant" /\ t.model = p
                               /\ t.parentTurnId = fan[r].userTurn
                  /\ fan[r].task[p] = "error" =>
                        /\ fan[r].turnId[p] \in Ids(turns)
                        /\ LET t == TurnById(turns, fan[r].turnId[p])
                           IN  /\ StartsWith(t.content, ErrorPrefix)
                               /\ t.role = "assistant" /\ t.model = p
                               /\ t.parentTurnId = fan[r].userTurn
            /\ fan[r].userTurn \in Ids(turns)
            /\ TurnById(turns, fan[r].userTurn).role = "user"
            /\ fan[r].pc = "done" => fan[r].status = 201

\* A /turns request was answered after claude failed and openai succeeded.
C4_Witness ==
    \E r \in FanReqs :
        /\ fan[r].kind = "turns" /\ fan[r].pc = "done"
        /\ fan[r].task["claude"] = "error" /\ fan[r].task["openai"] = "ok"

CredentialNotConfigured ==
    ErrorPrefix \o <<"c", "r", "e", "d", "e", "n", "t", "i", "a", "l", " ",
                     "n", "o", "t", " ", "c", "o", "n", "f", "i", "g", "u", "r", "e", "d">>

\* C8: when a fan-out selects provider B and B has no credential, an assistant
\* turn for B (branchId B, model B, parent the user turn) is still stored with
\* content "Error: credential not configured", so branch B resolves to
\* [userTurn, turnB].
C8_MissingCredentialTurn ==
    \A r \in FanReqs, B \in Providers :
        (fan[r].kind = "turns" /\ fan[r].branchId = "root" /\ fan[r].task[B] = "nokey") =>
            \E t \in Range(turns) :
                /\ t.role = "assistant" /\ t.model = B /\ t.branchId = B
                /\ t.parentTurnId = fan[r].userTurn
                /\ t.content = CredentialNotConfigured

-----------------------------------------------------------------------------
(* Claims about POST /stream *)

Resolved(s) == sess[s].pc \in {"key", "streaming", "done"}

SameSend(s1, s2) ==
    /\ s1 # s2
    /\ Resolved(s1) /\ Resolved(s2)
    /\ sess[s1].content = sess[s2].content
    /\ sess[s1].branchId = sess[s2].branchId

Abs(n) == IF n < 0 THEN -n ELSE n

RECURSIVE Concat(_)
Concat(texts) == IF texts = <<>> THEN <<>> ELSE Head(texts) \o Concat(Tail(texts))

ChunkData(events) ==
    LET chunks == SelectSeq(events, LAMBDA e : e.event = "chunk")
    IN  [i \in 1..Len(chunks) |-> chunks[i].data]

\* The chunks relayed to the caller before the connection closed.
RelayedBeforeClose(s) == ChunkData(SubSeq(sess[s].events, 1, sess[s].closeAt))

C6_ProviderErrorPersisted ==
    \A s \in Sessions :
        (sess[s].pc = "done" /\ sess[s].outcome = "error") =>
            /\ \E i \in 1..Len(sess[s].events) : sess[s].events[i].event = "error"
            /\ \E t \in Range(turns) :
                  /\ t.role = "assistant" /\ t.model = sess[s].provider
                  /\ t.parentTurnId = sess[s].userTurn
                  /\ StartsWith(t.content, ErrorPrefix)

-----------------------------------------------------------------------------
(* Claims about the refactored routes, checked under SpecNew *)

RouteAnswered == rt.pc = "done" /\ \A p \in Providers : rt.task[p] # "generating"

\* C7: every assistant turn the streaming handler creates with empty content is
\* sealed with non-empty content on every terminal path; no /stream request
\* ends with a stored assistant turn whose content is the empty string.
C7_EmptyTurnSealed ==
    (rt.kind = "stream" /\ RouteAnswered) =>
        \A t \in Range(turns) : t.role = "assistant" => t.content # <<>>

\* C9: in one fan-out over the models of a request, when the credential check
\* fails for one provider p, every other requested provider q that has a
\* credential still has its session run; p's missing credential never aborts q.
C9_MissingCredentialScoped ==
    (/\ RouteAnswered
     /\ \A m \in Range(rt.models) : m \in Providers
     /\ \E p \in Range(rt.models) : p \notin apiKeys) =>
        \A q \in Range(rt.models) \cap rt.keysAtStart : rt.task[q] # "none"

-----------------------------------------------------------------------------
(* Claims about the client hook, checked under SpecClient *)

\* C10: cancelStream(p) aborts only provider p's stream: for every other
\* provider q the step leaves q's abort controller in place and not aborted,
\* and leaves q's stream state (isStreaming, content, error), its pending read
\* and its accumulated text as they were.
C10_CancelStreamFrame ==
    [][\A p \in Providers :
          cancelStream(p) =>
              \A q \in Providers \ {p} :
                  /\ (q \in hook'.controllers) = (q \in hook.controllers)
                  /\ (q \in hook'.aborted) = (q \in hook.aborted)
                  /\ hook'.streams[q] = hook.streams[q]
                  /\ hook'.reader[q] = hook.reader[q]
                  /\ hook'.accumulated[q] = hook.accumulated[q]]_vars

\* One provider was cancelled before its first chunk; the other one is still
\* being read and has received every chunk.
C10_Witness ==
    \E p, q \in Providers :
        /\ p # q
        /\ p \in hook.aborted /\ hook.reader[p] = "aborted"
        /\ ~hook.streams[p].isStreaming /\ hook.streams[p].content = <<>>
        /\ q \in hook.controllers /\ q \notin hook.aborted
        /\ hook.reader[q] = "reading" /\ hook.streams[q].isStreaming
        /\ Len(hook.streams[q].content) = MaxChunks

EventsOf(kind) == SelectSeq(rt.events, LAMBDA e : e.event = kind)

DoneOnceAfterAllTerminal ==
    rt.kind = "stream" =>
        /\ Len(EventsOf("done")) <= 1
        /\ (rt.pc = "done") = (Len(EventsOf("done")) = 1)
        /\ Len(EventsOf("done")) = 1 =>
              /\ rt.events[Len(rt.events)].event = "done"
              /\ \A i \in 1..Len(rt.models) :
                    \E j \in 1..(Len(rt.events) - 1) :
                        /\ rt.events[j].event \in {"turnEnd", "error"}
                        /\ rt.events[j].model = rt.models[i]

NothingAfterDone ==
    (/\ rt.kind = "stream" /\ rt.pc = "done"
     /\ rt'.kind = "stream" /\ rt'.userTurn = rt.userTurn) =>
        (turns' = turns /\ rt'.events = rt.events)

\* C11: in a multi-provider stream request the done event is emitted exactly
\* once, only after every selected provider has a terminal event (turnEnd or
\* error), and after done no event is written and no turn is created or
\* modified for that request.
C11_DoneOnceAndLast == []DoneOnceAfterAllTerminal /\ [][NothingAfterDone]_vars

\* Two providers were selected, one ended its turn and one ended with an
\* error, and done was written last.
C11_Witness ==
    /\ rt.kind = "stream" /\ rt.pc = "done" /\ Len(rt.models) = 2
    /\ Len(EventsOf("turnEnd")) = 1 /\ Len(EventsOf("error")) = 1
    /\ Len(EventsOf("chunk")) >= 1
    /\ rt.events[Len(rt.events)].event = "done"

-----------------------------------------------------------------------------
(* Claims about branch resolution, checked under SpecResolve *)

\* C12: branch resolution is a function of the stored state: two calls of
\* getTurnsByBranch with the same chatId and branchId against identical stored
\* turns, turns that share a timestamp included, return the same turns in the
\* same order.
C12_SameResultEachCall ==
    view.calls = 2 => view.second = view.first

\* C13: for every stored turn set and every branch id, "root" included, the
\* sequence returned by branch resolution is ordered by timestamp ascending.
C13_TimestampAscending ==
    view.calls >= 1 =>
        \A i, j \in 1..Len(view.first) :
            i < j => view.first[i].timestamp <= view.first[j].timestamp

RootUserTurns == {t \in Range(turns) : t.role = "user" /\ t.branchId = "root"}

RepliesTo(u) == {t \in Range(turns) : t.role = "assistant" /\ t.parentTurnId = u.id}

Canonical(r) == r.branchId = r.model

\* C14: resolving "root" returns every root-branch user turn and, for each such
\* user turn u with at least one reply, exactly one reply of u: one whose
\* branchId equals its own model if there is one, otherwise the first reply to u
\* in stored (timestamp) order. Nothing else is returned.
C14_RootOneReplyPreferred ==
    (view.calls >= 1 /\ view.branchId = "root") =>
        /\ \A u \in RootUserTurns :
              Len(SelectSeq(view.first, LAMBDA t : t = u)) = 1
        /\ \A t \in Range(view.first) :
              \/ t \in RootUserTurns
              \/ \E u \in RootUserTurns : t \in RepliesTo(u)
        /\ \A u \in RootUserTurns :
              LET returned == SelectSeq(view.first, LAMBDA t : t \in RepliesTo(u))
              IN  IF RepliesTo(u) = {} THEN returned = <<>>
                  ELSE /\ Len(returned) = 1
                       /\ IF \E r \in RepliesTo(u) : Canonical(r)
                          THEN Canonical(returned[1])
                          ELSE \A r \in RepliesTo(u) :
                                  returned[1].timestamp <= r.timestamp

\* The root view returned the reply on the model's own branch although an
\* earlier reply to the same user turn lies on another branch.
C14_Witness ==
    /\ view.calls >= 1 /\ view.branchId = "root"
    /\ \E r \in Range(view.first) :
          /\ r.role = "assistant" /\ Canonical(r)
          /\ \E e \in Range(turns) :
                /\ e.role = "assistant" /\ e.parentTurnId = r.parentTurnId
                /\ ~Canonical(e) /\ e.timestamp < r.timestamp

\* The turns the stated rule puts on non-root branch B.
OnBranch(t, B) ==
    \/ (t.role = "user" /\ t.branchId = "root")
    \/ t.branchId = B
    \/ /\ t.role = "assistant" /\ t.model = B
       /\ \E u \in RootUserTurns : t.parentTurnId = u.id

\* C15: resolving a non-root branch B returns exactly the root-branch user
\* turns, the turns with branchId B, and the assistant turns with model B whose
\* parent is a root-branch user turn; an assistant turn with model B on another
\* non-root branch that answers a non-root user turn is not returned.
C15_NonRootExactly ==
    (view.calls >= 1 /\ view.branchId \in Providers) =>
        Range(view.first) = {t \in Range(turns) : OnBranch(t, view.branchId)}

-----------------------------------------------------------------------------
(* More claims about POST /stream, checked under SpecStream *)

\* C16: in a streaming session that completes successfully after the provider
\* emitted chunks c1..cn, for every n >= 0, an assistant turn for that provider
\* is stored whose content is exactly the concatenation c1..cn, and the
\* completion event is emitted after the last chunk event.
C16_CompletionPersisted ==
    \A s \in Sessions :
        (sess[s].pc = "done" /\ sess[s].outcome = "complete") =>
            /\ sess[s].events[Len(sess[s].events)].event = "done"
            /\ \E t \in Range(turns) :
                  /\ t.role = "assistant" /\ t.model = sess[s].provider
                  /\ t.parentTurnId = sess[s].userTurn
                  /\ t.content = Concat(ChunkData(sess[s].events))

-----------------------------------------------------------------------------
(* Claims about ChatService, checked under SpecChat *)

-----------------------------------------------------------------------------
(* Claims about rejected requests and about compare *)

\* C17: a fan-out request that fails validation (here: an unknown provider in
\* the model list) is rejected with a validation error and leaves the turn store
\* unchanged: no user turn and no assistant turn is created by it.
C17_ValidationLeavesStore ==
    (/\ rt.kind \in {"turns", "stream"} /\ RouteAnswered
     /\ \E i \in 1..Len(rt.models) : rt.models[i] \notin Providers) =>
        /\ rt.status = 400
        /\ \A t \in Range(turns) : t.id # rt.userTurn /\ t.parentTurnId # rt.userTurn

\* C19: a fan-out request that names a parentTurnId which identifies no turn of
\* the conversation is rejected before any turn is created: no stored turn
\* names a parent that is not stored.
C19_UnknownParentRejected ==
    \A t \in Range(turns) :
        t.parentTurnId # Null => t.parentTurnId \in Ids(turns)

CompareRepliesWellFormed ==
    \A r \in FanReqs :
        fan[r].kind = "compare" =>
            \A p \in Providers :
                fan[r].turnId[p] # Null =>
                    LET t == TurnById(turns, fan[r].turnId[p])
                    IN  /\ t.role = "assistant"
                        /\ t.parentTurnId = fan[r].userTurn
                        /\ t.branchId = p /\ t.model = p
                        /\ TurnById(turns, fan[r].userTurn).role = "user"

CompareAppendsOnlyReplies ==
    \A r \in FanReqs :
        (fan[r].kind = "compare" /\ fan[r].pc = "running" /\ fan'[r].kind = "compare") =>
            \/ turns' = turns
            \/ /\ Len(turns') = Len(turns) + 1
               /\ SubSeq(turns', 1, Len(turns)) = turns
               /\ turns'[Len(turns')].role = "assistant"
               /\ turns'[Len(turns')].parentTurnId = fan[r].userTurn
               /\ turns'[Len(turns')].branchId = turns'[Len(turns')].model

\* C20: a compare request on an existing user turn u never creates a user turn,
\* and every assistant turn it creates has parentTurnId = u.id and branchId =
\* model = its provider, whatever u's own branchId is and whether or not u is
\* the most recent user turn.
C20_CompareOwnBranches == []CompareRepliesWellFormed /\ [][CompareAppendsOnlyReplies]_vars

\* A compare on a user turn of branch claude that is not the latest user turn
\* stored openai's reply on branch openai.
C20_Witness ==
    \E r \in FanReqs :
        /\ fan[r].kind = "compare" /\ fan[r].turnId["openai"] # Null
        /\ TurnById(turns, fan[r].userTurn).branchId = "claude"
        /\ \E t \in Range(turns) : t.role = "user" /\ t.id > fan[r].userTurn

-----------------------------------------------------------------------------
(* Claims about the refactored compare and turn routes, checked under    *)
(* SpecNewCompare (C21, C22) and SpecNew (C23)                           *)

IdentifiesUserTurn ==
    /\ rt.userTurn # Null
    /\ TurnById(turns, rt.userTurn).role = "user"

\* C21: a compare request whose turn id does not identify an existing user turn
\* of the conversation fails with NotFound (404) and creates no turn.
C21_CompareUnknownTurnNotFound ==
    (rt.kind = "compare" /\ ~IdentifiesUserTurn) =>
        /\ rt.pc = "done" => rt.status = 404
        /\ \A p \in Providers : rt.turnId[p] = Null

\* C22: in every reachable state of the turn store, every assistant turn has a
\* non-null model and a non-null parentTurnId that is the id of a stored user
\* turn of the same conversation.
C22_AssistantAnswersUserTurn ==
    \A t \in Range(turns) :
        t.role = "assistant" =>
            /\ t.model # NoModel
            /\ t.parentTurnId # Null
            /\ t.parentTurnId \in Ids(turns)
            /\ TurnById(turns, t.parentTurnId).role = "user"
            /\ TurnById(turns, t.parentTurnId).chatId = t.chatId

\* C23: every assistant turn created by a fan-out issued on request branch b
\* with provider p has branchId p when b is "root" and branchId b otherwise,
\* and none has branchId "root".
C23_FanOutBranchNaming ==
    rt.kind = "turns" =>
        \A p \in Providers :
            rt.turnId[p] # Null =>
                LET b == TurnById(turns, rt.userTurn).branchId
                    t == TurnById(turns, rt.turnId[p])
                IN  /\ t.branchId = (IF b = "root" THEN p ELSE b)
                    /\ t.branchId # "root"

-----------------------------------------------------------------------------
(* Claims about the title, checked under SpecTitle *)

\* c itself when it has at most 30 characters, otherwise its first 30
\* characters followed by "..."
DerivedFrom(c) ==
    IF Len(c) <= 30 THEN c ELSE SubSeq(c, 1, 30) \o <<".", ".", ".">>

\* C24: after any sequence and any interleaving of turn appends, once at least
\* one user turn exists and no append is in progress, the conversation's title
\* is the derivation of the first user turn's content, whatever user turns
\* were appended later.
C24_TitleFromFirstUserTurn ==
    (/\ \A w \in Writers : writers[w].pc = "idle"
     /\ UserTurnsOf(turns, ChatId) # <<>>) =>
        chats[ChatId].title = DerivedFrom(UserTurnsOf(turns, ChatId)[1].content)

-----------------------------------------------------------------------------
(* Claims about the context window, checked under SpecContext *)

Min(a, b) == IF a < b THEN a ELSE b

\* C25: for every resolved history H and every context-window size N >= 0, the
\* history passed to the provider is exactly the last min(N, |H|) turns of H in
\* timestamp-ascending order, and never more than N turns.
C25_LastNTurns ==
    context.calls >= 1 =>
        LET sorted == OrderByTimestamp(context.history)
            k == Min(context.size, Len(sorted))
        IN  /\ Len(context.passed) = k
            /\ Len(context.passed) <= context.size
            /\ \A i \in 1..Len(context.passed) :
                  context.passed[i] = ConversationMessage(sorted[Len(sorted) - k + i])
            /\ \A i, j \in 1..Len(context.recent) :
                  i < j => context.recent[i].timestamp <= context.recent[j].timestamp

-----------------------------------------------------------------------------
(* Claims about the relay of chunks, checked under SpecRelay *)

\* C26: for each assistant turn, the chunk events written to the caller are the
\* provider's chunks in the order it emitted them, the k-th event carrying the
\* k-th chunk, none dropped, duplicated or reordered, and all of them before
\* the terminal event, however the chunks of the two sessions interleave.
C26_ChunksRelayedInOrder ==
    \A s \in Sessions :
        LET events == sess[s].events
            data == ChunkData(events)
        IN  /\ \A k \in 1..Len(data) : data[k] = Chunk(k)
            /\ sess[s].completeResponse = Concat(data)
            /\ \A i, j \in 1..Len(events) :
                  (events[i].event = "chunk" /\ events[j].event # "chunk") => i < j

\* One session has relayed its first chunk and is still streaming while the
\* other provider's session has relayed both of its chunks and completed.
C26_Witness ==
    \E s1, s2 \in Sessions :
        /\ sess[s1].provider # sess[s2].provider
        /\ sess[s1].pc = "streaming" /\ ChunkCount(sess[s1].events) = 1
        /\ sess[s2].pc = "done" /\ ChunkCount(sess[s2].events) = MaxChunks

-----------------------------------------------------------------------------
(* Claims about the refactored POST /stream, checked under SpecNewStreamFair *)

BothSelected ==
    /\ rt.kind = "stream"
    /\ rt.models = <<"claude", "openai">>
    /\ Providers \subseteq rt.keysAtStart

\* C27: in a multi-provider streaming fan-out each provider's session is an
\* independent task: when claude and openai are selected and both have a key,
\* the session of openai starts whether or not the session of claude ever
\* reaches a terminal state.
C27_ProvidersIndependent ==
    BothSelected ~> (rt.task["openai"] # "none")

-----------------------------------------------------------------------------
(* Claims about the life of stored turns, checked under SpecChat *)

TurnsKept ==
    /\ Len(turns') >= Len(turns)
    /\ SubSeq(turns', 1, Len(turns)) = turns

\* C28: under any sequence of operations other than deleting a whole
\* conversation no stored turn is removed and no stored turn changes; creating
\* a turn leaves every previously stored turn as it was; deleting a
\* conversation removes its turns and no others.
C28_TurnsImmutable ==
    [][IF DOMAIN chats \subseteq DOMAIN chats'
       THEN TurnsKept
       ELSE turns' = SelectSeq(turns, LAMBDA t : t.chatId \in DOMAIN chats')]_vars

\* A second turn was created in a chat after another chat was deleted.
C28_Witness ==
    /\ reply.op = "createTurn" /\ reply.result = "ok"
    /\ Len(turns) = MaxServiceTurns
    /\ \E c \in 1..(currentChatId - 1) : c \notin DOMAIN chats

-----------------------------------------------------------------------------
(* Claims about deleteChat, checked under SpecChatPg *)

-----------------------------------------------------------------------------
(* Claims about rejected inserts, checked under SpecPersist *)

\* C30: if persisting one provider's assistant turn fails during a fan-out,
\* only that provider's result is lost: the request is still answered 201 for
\* the other providers and their assistant turns are stored intact.
C30_PersistFailureScoped ==
    \A r \in FanReqs :
        (fan[r].kind = "turns" /\ \E p \in Providers : fan[r].task[p] = "rejected") =>
            /\ fan[r].pc = "done" => fan[r].status = 201
            /\ \A q \in Providers :
                  fan[r].task[q] = "ok" =>
                      /\ fan[r].turnId[q] \in Ids(turns)
                      /\ TurnById(turns, fan[r].turnId[q]).content = fan[r].gen[q]

-----------------------------------------------------------------------------
(* Claims about the reuse of user turns by POST /stream, checked under SpecDedup *)

\* C31: the /stream handler reuses an existing user turn only if that turn
\* belongs to the same conversation, has the branchId and the content of the
\* request and was created less than 5 seconds before the lookup; a recent user
\* turn with equal content on another branch is never reused.
C31_ReuseOnlySameBranch ==
    \A s \in Sessions :
        (Resolved(s) /\ ~sess[s].created) =>
            LET u == TurnById(turns, sess[s].userTurn)
            IN  /\ u.role = "user"
                /\ u.chatId = ChatId
                /\ u.content = sess[s].content
                /\ u.branchId = sess[s].branchId
                /\ sess[s].lookupTime - u.timestamp < DedupWindowMs

-----------------------------------------------------------------------------
(* Claims about the ids of stored turns, checked under SpecMemStream *)

\* C32: a turn appended with a caller-chosen id is stored under that id: the id
\* announced in the userTurn event and the ids announced in turnStart events are
\* ids of stored turns, and the parentTurnId of every stored assistant turn is
\* the id of a stored turn.
C32_AnnouncedIdsStored ==
    rt.kind = "stream" =>
        /\ rt.userTurn \in Ids(turns)
        /\ \A p \in Providers : rt.turnId[p] # Null => rt.turnId[p] \in Ids(turns)
        /\ \A t \in Range(turns) :
               t.role = "assistant" => t.parentTurnId \in Ids(turns)

-----------------------------------------------------------------------------
(* Claims about the end of a /stream response, checked under SpecNewStreamFair *)
(* and SpecNew                                                                *)

\* C33: every provider session reaches a terminal state even when the provider
\* never answers: a /stream request that has begun eventually writes its done
\* event.
C33_StreamEventuallyDone ==
    (rt.kind = "stream" /\ rt.pc \in {"loop", "streaming", "reported"}) ~> (rt.pc = "done")

EventIndexes(model, names) ==
    {i \in 1..Len(rt.events) :
        rt.events[i].model = model /\ rt.events[i].event \in names}

-----------------------------------------------------------------------------
(* Claims about the turns one /stream session stores, checked under SpecStream *)

\* The assistant turns stored for the user turn and the provider of session s.
SessionReplies(s) ==
    {t \in Range(turns) :
        /\ t.role = "assistant"
        /\ t.id \in {sess[s].closeTurn, sess[s].finalTurn}
        /\ t.parentTurnId = sess[s].userTurn
        /\ t.model = sess[s].provider}

\* C35: a /stream session stores at most one assistant turn for its user turn
\* and provider, however the caller's disconnection and the provider's
\* completion interleave: never both the turn of the close handler and the turn
\* of the completion path.
C35_OneTurnPerSession ==
    \A s \in Sessions :
        Resolved(s) => Cardinality(SessionReplies(s)) <= 1

-----------------------------------------------------------------------------
(* Claims about the conversation handed to a provider, checked under SpecPrompt *)

\* C36: the conversation passed to a provider ends with the current prompt and
\* holds it once: the user turn of the request is not among the turns of the
\* history that precede the appended prompt.
C36_PromptOnce ==
    context.calls > 0 =>
        /\ context.passed[Len(context.passed)].role = "user"
        /\ context.passed[Len(context.passed)].content =
               TurnById(turns, context.userTurn).content
        /\ Len(context.passed) = Len(context.recent) + 1
        /\ \A t \in Range(context.recent) : t.id # context.userTurn

-----------------------------------------------------------------------------
(* Claims about the single-stream client hook, checked under SpecStreaming *)

\* The chunks of a response body, concatenated.
SentContent(body) == Concat(ChunkData(body))

\* The body ended with { done: true } rather than { error }.
NormalBody(body) == body # <<>> /\ body[Len(body)].event = "done"

\* C37: for a stream that completes normally the hook calls onComplete exactly
\* once, with the concatenation of all chunks received, also when the done
\* event is followed by the end of the body; a cancelled or failed stream does
\* not call it.
C37_OnCompleteOnce ==
    hook.pc = "ended" =>
        IF NormalBody(hook.sent) /\ ~hook.cancelled /\ hook.error = NoError
        THEN hook.completions = <<SentContent(hook.sent)>>
        ELSE hook.completions = <<>>

-----------------------------------------------------------------------------
(* Claims about turns and deleted conversations, checked under SpecDelete *)

\* C38: no turn is stored for a conversation that does not exist: after a
\* conversation was deleted while a stream session for it was in flight, the
\* session's later createTurn calls leave no turn of that conversation.
C38_NoTurnWithoutChat ==
    \A t \in Range(turns) : getChat(t.chatId)

-----------------------------------------------------------------------------
(* Claims about one multi-provider send, checked under SpecSend *)

AssistantTurnsOf(provider) ==
    {t \in Range(turns) : t.role = "assistant" /\ t.model = provider}

\* Every stream of the send has ended with its provider's reply stored.
SendComplete ==
    /\ hook.pc = "streaming"
    /\ \A p \in hook.providers :
           \E s \in Sessions : /\ sess[s].provider = p /\ sess[s].pc = "done"
                               /\ sess[s].finalTurn # Null

\* C39: one send of startMultiStream with providers P and no parentTurnId stores
\* at most one assistant turn per provider, and exactly one per provider of P
\* when every stream has completed: the request that creates the shared user
\* turn stores no reply of the first provider.
C39_OneReplyPerProvider ==
    /\ \A p \in Providers : Cardinality(AssistantTurnsOf(p)) <= 1
    /\ SendComplete =>
           \A p \in hook.providers : Cardinality(AssistantTurnsOf(p)) = 1

====
